---- MODULE Spec2Model ----
(***************************************************************************)
(* A model of the tsla-neutral bot's control core: the persistent state    *)
(* machine (state_machine.ts), the distributed lock (distributed_lock.ts)  *)
(* over the store of redis_client.ts, the process life cycle of index.ts   *)
(* the shutdown protocol of shutdown.ts, the rebalance decision of         *)
(* risk_manager.ts and the cycle loop of orchestrator.ts.                  *)
(*                                                                         *)
(* Twelve specifications share the module:                                  *)
(*   SpecSM     the state machine's functions applied by one caller to one *)
(*              state store, inputs drawn from small sets;                 *)
(*   Spec       bot processes (main) racing for one lock record, with the  *)
(*              renewal timer, the cycle loop's state writes and shutdown, *)
(*              over the Redis server or the in-memory mock;               *)
(*   SpecRedis  Spec with the Redis server as the only store;              *)
(*   SpecEval   evaluateRebalance applied to inputs drawn from small sets; *)
(*   SpecOrch   one Orchestrator: initialize, the loop of start with whole *)
(*              cycles (gate, fetches, decision, dispatch, accounting,     *)
(*              waits) and stop, over one state store;                     *)
(*   SpecBackoff  one Backoff instance of utils/backoff.ts under any       *)
(*              sequence of getNextDelay and reset calls;                  *)
(*   SpecRetry  one call of withRetry, with fair steps;                    *)
(*   SpecShutdown  one process: calls of start() and stop(), the loops     *)
(*              they run, and gracefulShutdown of utils/shutdown.ts with   *)
(*              its hard timeout, with fair shutdown steps;                *)
(*   SpecWatch  the heartbeat key, the cycles of the orchestrator and the  *)
(*              checks of the Watchdog;                                    *)
(*   SpecAlert  calls of sendAlert for one alert type, split at the await  *)
(*              of the Telegram request;                                   *)
(*   SpecStop   stop() called while a cycle is in flight, with the state   *)
(*              writes of both in flight on one connection;                *)
(*   SpecRelease  release() and the renewal callbacks of one lock          *)
(*              instance, with their scripts in flight on one connection.  *)
(***************************************************************************)
EXTENDS Integers, Sequences, FiniteSets, TLC

VARIABLES
    \* ---- SpecSM: one caller of state_machine.ts and its store ----
    smStore,    \* what the store holds under STATE_KEY
    smCur,      \* the snapshot the caller holds (its `state` variable)
    smLast,     \* the last call: its name, arguments, result
    smRun,      \* recordFailure calls in a row since the caller held IDLE/0
    smSaved,    \* the snapshot object whose text the store holds (observation)
    \* ---- Spec: the processes and the store ----
    useMock,    \* process.env.USE_MOCK_REDIS === 'true'
    lockVal,    \* store -> value under the lock key (NoToken when absent)
    lockTtl,    \* store -> remaining time to live of the lock key (NoExpiry: none)
    lockAge,    \* store -> ticks the time to live of the lock key has run since it was
                \*          last set or renewed (observation)
    stateRec,   \* store -> what the store holds under STATE_KEY
    pc,         \* process -> where main() stands
    isHeld,     \* process -> DistributedLock.isHeld
    timerOn,    \* process -> DistributedLock.renewalInterval !== null
    renewDue,   \* process -> the renewal interval has elapsed, callback due
    botState,   \* process -> Orchestrator.state (NoSnap while null)
    isRunning,  \* process -> Orchestrator.isRunning
    cyc,        \* process -> where the loop of Orchestrator.start stands
    sd,         \* process -> where gracefulShutdown stands
    hist,       \* process -> what the instance has done so far (observation)
    \* ---- SpecEval: one call of evaluateRebalance ----
    evIn,       \* the arguments, and the clock readings of the call
    evOut,      \* the decision returned (NoDecision before the call)
    \* ---- SpecOrch: one Orchestrator and its state store ----
    oCfg,       \* the configuration: DRY_RUN, AUTO_BOOTSTRAP, clients initialized
    oStore,     \* what the store holds under STATE_KEY
    oState,     \* Orchestrator.state (NoSnap while null)
    oPc,        \* where the orchestrator stands: created, loop, stopped, exited
    oBoot,      \* Orchestrator.hasBootstrapped
    oStreak,    \* cycles in a row an exception escaped from, since the orchestrator
                \* held IDLE with no failures (-1: no such run; observation)
    oLast,      \* what the last loop iteration did (observation)
    oBackoff,   \* Orchestrator.backoff.currentDelay
    \* ---- SpecBackoff: one Backoff instance and its caller ----
    bk,         \* the instance's fields, and what its last call did (observation)
    \* ---- SpecRetry: one call of withRetry ----
    rt,         \* the options, the locals of the call, and what it did (observation)
    \* ---- SpecShutdown: one process, its orchestrator's loops and gracefulShutdown ----
    gs,         \* isRunning, the calls of start() in progress, and shutdown.ts's state
    \* ---- SpecWatch: the heartbeat key, the cycling orchestrator and the Watchdog ----
    wd,         \* the clock, the heartbeat key, and what the Watchdog last found
    \* ---- SpecAlert: the calls of sendAlert for one alert type ----
    al,         \* the clock, lastAlertByType's entry, the calls and what went out
    \* ---- SpecStop: stop() and a cycle in flight ----
    sr,         \* this.state, the store, the writes in flight, where cycle and stop are
    \* ---- SpecRelease: release() and the renewal callbacks ----
    lk          \* the lock record, the held flag, the timer, the scripts in flight

smVars == <<smStore, smCur, smLast, smRun, smSaved>>
procVars == <<useMock, lockVal, lockTtl, lockAge, stateRec, pc, isHeld, timerOn,
              renewDue, botState, isRunning, cyc, sd, hist>>
evalVars == <<evIn, evOut>>
orchVars == <<oCfg, oStore, oState, oPc, oBoot, oStreak, oLast, oBackoff>>
utilVars == <<bk, rt, gs, wd, al, sr, lk>>
ocVars == <<evalVars, orchVars, utilVars>>
vars == <<smVars, procVars, ocVars>>

(***************************************************************************)
(* types.ts: BotState and StateMachineState                                *)
(***************************************************************************)
BotStates == {"IDLE", "OPENING_LP", "HEDGING", "REBALANCING", "CLOSING_LP",
              "CLOSING_HEDGE", "ERROR_RECOVERY", "SHUTTING_DOWN"}

\* null of a `string | null` field
Null == "<null>"
\* null of the `number | null` field outOfRangeSince
NoTime == -1

KeyOrder == <<"currentState", "lpPositionMint", "hedgePositionId", "lastLpDelta",
              "lastHedgeDelta", "lastRebalanceTime", "outOfRangeSince",
              "consecutiveFailures", "lastError">>
Keys == {KeyOrder[i] : i \in 1..Len(KeyOrder)}
StringKeys == {"currentState", "lpPositionMint", "hedgePositionId", "lastError"}

\* the caller holds no snapshot yet (Orchestrator.state === null)
NoSnap == [currentState |-> "<none>"]

getDefaultState ==
    [currentState |-> "IDLE", lpPositionMint |-> Null, hedgePositionId |-> Null,
     lastLpDelta |-> 0, lastHedgeDelta |-> 0, lastRebalanceTime |-> 0,
     outOfRangeSince |-> NoTime, consecutiveFailures |-> 0, lastError |-> Null]

(***************************************************************************)
(* JSON.stringify / JSON.parse of a snapshot: the text is the sequence of  *)
(* its members in insertion order, each value written as a JSON token.     *)
(***************************************************************************)
JsonToken(k, v) ==
    IF k \in StringKeys
    THEN IF v = Null THEN <<"null", "">> ELSE <<"string", v>>
    ELSE IF k = "outOfRangeSince" /\ v = NoTime THEN <<"null", 0>> ELSE <<"number", v>>

JsonStringify(s) == [i \in 1..Len(KeyOrder) |-> <<KeyOrder[i], JsonToken(KeyOrder[i], s[KeyOrder[i]])>>]

JsonValue(k, tok) ==
    IF tok[1] = "null" THEN (IF k \in StringKeys THEN Null ELSE NoTime) ELSE tok[2]

JsonParse(text) ==
    [k \in {text[i][1] : i \in 1..Len(text)} |->
        JsonValue(k, text[CHOOSE i \in 1..Len(text) : text[i][1] = k][2])]

(***************************************************************************)
(* The store's value under STATE_KEY: absent, or a string that is empty,   *)
(* not JSON at all, the JSON text `null`, or the JSON text of an object.   *)
(***************************************************************************)
Absent == [kind |-> "absent", body |-> <<>>]
EmptyText == [kind |-> "empty", body |-> <<>>]
GarbageText == [kind |-> "garbage", body |-> <<>>]
NullJsonText == [kind |-> "nulljson", body |-> <<>>]
JsonText(body) == [kind |-> "json", body |-> body]

(***************************************************************************)
(* state_machine.ts                                                        *)
(***************************************************************************)
\* loadState, given what redis.get returned: `!data` takes absent and the empty
\* string; JSON.parse throws on garbage; a parsed null throws on
\* state.currentState; both throws are caught inside the try block.
loadStateValue(data) ==
    IF data.kind \in {"absent", "empty"} THEN getDefaultState
    ELSE IF data.kind = "garbage" THEN getDefaultState
    ELSE IF data.kind = "nulljson" THEN getDefaultState
    ELSE JsonParse(data.body)

\* a loadState whose try block also wrapped the redis.get
loadStateThrows_ReadInsideTry(readFails) == FALSE

\* loadState rejects exactly when redis.get rejects: the await is outside the try
loadStateThrows(readFails) == readFails

\* saveState: what redis.set is given
saveStateText(state) == JsonText(JsonStringify(state))

\* a transitionState that spreads the updates last: {...currentState, currentState: newState, ...updates}
updatedState_UpdatesLast(currentState, newState, updates) ==
    [k \in Keys |->
        IF k \in DOMAIN updates THEN updates[k]
        ELSE IF k = "currentState" THEN newState
        ELSE currentState[k]]

\* transitionState: {...currentState, ...updates, currentState: newState}
updatedState(currentState, newState, updates) ==
    [k \in Keys |->
        IF k = "currentState" THEN newState
        ELSE IF k \in DOMAIN updates THEN updates[k]
        ELSE currentState[k]]

\* the escalation threshold of recordFailure
FailureThreshold == 5

\* a recordFailure that escalates one failure late (> instead of >=)
recordFailureState_Late(currentState, error) ==
    LET consecutiveFailures == currentState.consecutiveFailures + 1
        updates == [consecutiveFailures |-> consecutiveFailures, lastError |-> error]
    IN  IF consecutiveFailures > FailureThreshold
        THEN updatedState(currentState, "ERROR_RECOVERY", updates)
        ELSE updatedState(currentState, currentState.currentState, updates)

\* recordFailure: the snapshot it passes on to transitionState's save
recordFailureState(currentState, error) ==
    LET consecutiveFailures == currentState.consecutiveFailures + 1
        updates == [consecutiveFailures |-> consecutiveFailures, lastError |-> error]
    IN  IF consecutiveFailures >= FailureThreshold
        THEN updatedState(currentState, "ERROR_RECOVERY", updates)
        ELSE updatedState(currentState, currentState.currentState, updates)

\* recordSuccess returns its input, with no save, when it is already clean
recordSuccessIsNoop(currentState) ==
    currentState.consecutiveFailures = 0 /\ currentState.lastError = Null

\* a recordSuccess that also puts the bot back to IDLE
recordSuccessState_ToIdle(currentState) ==
    IF recordSuccessIsNoop(currentState) THEN currentState
    ELSE updatedState(currentState, "IDLE",
                      [consecutiveFailures |-> 0, lastError |-> Null])

recordSuccessState(currentState) ==
    IF recordSuccessIsNoop(currentState) THEN currentState
    ELSE updatedState(currentState, currentState.currentState,
                      [consecutiveFailures |-> 0, lastError |-> Null])

\* a canOperate that only looks for ERROR_RECOVERY
canOperate_IgnoresShutdown(state) ==
    state.currentState # "ERROR_RECOVERY"

canOperate(state) ==
    state.currentState # "ERROR_RECOVERY" /\ state.currentState # "SHUTTING_DOWN"

(***************************************************************************)
(* strategy/risk_manager.ts: evaluateRebalance                             *)
(*                                                                         *)
(* Deltas are whole USD amounts, gas costs whole lamports.  Times are      *)
(* counted in ticks of half an hour, so that MAX_OUT_OF_RANGE_DURATION_MS  *)
(* (one hour) is two ticks; the time of day is the UTC minute of the day.  *)
(***************************************************************************)
Abs(x) == IF x < 0 THEN 0 - x ELSE x

Max(a, b) == IF a >= b THEN a ELSE b

\* config.DELTA_DRIFT_THRESHOLD_PERCENT = 0.05, as hundredths
DriftThresholdPercent == 5

\* config.MAX_OUT_OF_RANGE_DURATION_MS = 3600000, in ticks
MaxOutOfRangeTicks == 2

\* config.MAX_GAS_COST_PER_REBALANCE_SOL * LAMPORTS_PER_SOL = 0.05 * 10^9
MaxGasCostLamports == 50000000

\* config.QUIET_HOURS_START_UTC = '14:30' and config.QUIET_HOURS_END_UTC = '15:15',
\* after split(':').map(Number)
QuietHoursStartUtc == <<14, 30>>

QuietHoursEndUtc == <<15, 15>>

MinutesOf(hm) == hm[1] * 60 + hm[2]

\* isQuietHours() at UTC minute `currentUTC` of the day: both ends count
isQuietHours(currentUTC) ==
    currentUTC >= MinutesOf(QuietHoursStartUtc) /\ currentUTC <= MinutesOf(QuietHoursEndUtc)

isGasCostAcceptable(estimatedCostLamports) ==
    estimatedCostLamports <= MaxGasCostLamports

calculateNetDelta(lpDelta, hedgeDelta) == lpDelta + hedgeDelta

\* a drift check that needs the drift to exceed the threshold
driftReached_Strict(lpDelta, netDelta) ==
    Abs(netDelta) * 100 > DriftThresholdPercent * Max(Abs(lpDelta), 1)

\* driftPercent >= config.DELTA_DRIFT_THRESHOLD_PERCENT, where driftPercent is
\* Math.abs(netDelta) / Math.max(Math.abs(lpDelta), 1); the quotient is compared
\* by cross-multiplication (the divisor is at least 1)
driftReached(lpDelta, netDelta) ==
    Abs(netDelta) * 100 >= DriftThresholdPercent * Max(Abs(lpDelta), 1)

\* the blocking checks with the gas check ahead of the quiet hours check
blockedBy_GasFirst(state, estimatedGasCost, currentUTC) ==
    IF state.currentState # "IDLE" THEN "not_idle"
    ELSE IF ~isGasCostAcceptable(estimatedGasCost) THEN "gas_too_high"
    ELSE IF isQuietHours(currentUTC) THEN "quiet_hours"
    ELSE "none"

\* the blocking checks of evaluateRebalance, in the order of the code: the reason
\* of the first one that holds, "none" when none does
blockedBy(state, estimatedGasCost, currentUTC) ==
    IF state.currentState # "IDLE" THEN "not_idle"
    ELSE IF isQuietHours(currentUTC) THEN "quiet_hours"
    ELSE IF ~isGasCostAcceptable(estimatedGasCost) THEN "gas_too_high"
    ELSE "none"

\* `state.outOfRangeSince` as a condition: null and 0 are falsy
outOfRangeSinceSet(state) ==
    state.outOfRangeSince # NoTime /\ state.outOfRangeSince # 0

\* the trigger checks with the drift check ahead of the out-of-range check
triggeredBy_DriftFirst(state, lpDelta, hedgeDelta, isLpInRange, now) ==
    IF driftReached(lpDelta, calculateNetDelta(lpDelta, hedgeDelta)) THEN "delta_drift"
    ELSE IF /\ ~isLpInRange
            /\ outOfRangeSinceSet(state)
            /\ now - state.outOfRangeSince > MaxOutOfRangeTicks
    THEN "out_of_range_too_long"
    ELSE "within_threshold"

\* the trigger checks of evaluateRebalance, reached when nothing blocks
triggeredBy(state, lpDelta, hedgeDelta, isLpInRange, now) ==
    IF /\ ~isLpInRange
       /\ outOfRangeSinceSet(state)
       /\ now - state.outOfRangeSince > MaxOutOfRangeTicks
    THEN "out_of_range_too_long"
    ELSE IF driftReached(lpDelta, calculateNetDelta(lpDelta, hedgeDelta)) THEN "delta_drift"
    ELSE "within_threshold"

\* a RebalanceDecision (targetDelta and estimatedSlippage are 0 in every decision)
Decision(shouldRebalance, reason, currentDelta, sizeToAdjust, blocked) ==
    [shouldRebalance |-> shouldRebalance, reason |-> reason, currentDelta |-> currentDelta,
     targetDelta |-> 0, sizeToAdjust |-> sizeToAdjust, estimatedSlippage |-> 0,
     blocked |-> blocked]

\* evaluateRebalance(state, lpDelta, hedgeDelta, estimatedGasCost, isLpInRange),
\* called at UTC minute `currentUTC` of the day and time `now`
evaluateRebalance(state, lpDelta, hedgeDelta, estimatedGasCost, isLpInRange, currentUTC, now) ==
    LET netDelta == calculateNetDelta(lpDelta, hedgeDelta)
        block == blockedBy(state, estimatedGasCost, currentUTC)
        trigger == triggeredBy(state, lpDelta, hedgeDelta, isLpInRange, now)
    IN  IF block # "none" THEN Decision(FALSE, block, netDelta, 0, TRUE)
        ELSE IF trigger = "out_of_range_too_long"
             THEN Decision(TRUE, trigger, netDelta, 0 - hedgeDelta, FALSE)
        ELSE IF trigger = "delta_drift"
             THEN Decision(TRUE, trigger, netDelta, netDelta, FALSE)
        ELSE Decision(FALSE, trigger, netDelta, 0, FALSE)

\* no decision was evaluated
NoDecision == [reason |-> "<none>"]

(***************************************************************************)
(* SpecSM: one caller applies the functions of state_machine.ts            *)
(***************************************************************************)
\* the largest consecutiveFailures the caller lets a snapshot reach
MaxFailCount == 6

\* error texts handed to recordFailure
ErrorTexts == {"Error 1", "Error 2"}

NoUpdates == [k \in {} |-> 0]

\* the `updates` arguments tried
SMUpdates ==
    { NoUpdates,
      [lpPositionMint |-> "test-mint"],
      [currentState |-> "HEDGING", lastRebalanceTime |-> 1],
      [consecutiveFailures |-> 0, lastError |-> Null] }

\* snapshots an earlier run may have left in the store
SMStoredSnapshots ==
    { getDefaultState,
      [getDefaultState EXCEPT !.currentState = "REBALANCING", !.lpPositionMint = "test-mint",
                              !.outOfRangeSince = 2],
      [getDefaultState EXCEPT !.currentState = "ERROR_RECOVERY", !.consecutiveFailures = 5,
                              !.lastError = "Error 1"] }

\* the call a step made: its name, arguments, injected store fault, outcome
NoCall == [op |-> "none", newState |-> "<none>", updates |-> NoUpdates,
           error |-> Null, fault |-> "none", threw |-> FALSE]

\* smRun after a call that left the caller holding `cur`
RunBase(cur) == IF cur # NoSnap /\ cur.currentState = "IDLE" /\ cur.consecutiveFailures = 0
                THEN 0 ELSE -1

\* the processes of Spec do not exist in SpecSM
\* what a loop iteration did, before any iteration
NoCycle ==
    [gate |-> "none", mode |-> "none", fetched |-> {}, failed |-> {},
     tslaPrice |-> 0, lpDelta |-> 0, hedgeDelta |-> 0,
     evalState |-> "<none>", decision |-> NoDecision, dispatched |-> {},
     rebalance |-> "none", accounting |-> <<>>, escaped |-> FALSE, thrower |-> "none",
     waits |-> <<>>, backoff |-> 0, failedRun |-> 0]

NoConfig == [dryRun |-> FALSE]

NoInputs == [lpDelta |-> 0]

\* the variables of SpecEval and SpecOrch while another specification runs
EvalIdle == evIn = NoInputs /\ evOut = NoDecision

NoBackoff ==
    [initialDelay |-> 0, maxDelay |-> 0, multiplier |-> 0, currentDelay |-> 0,
     lastCall |-> "none", emissions |-> 0, wasReset |-> FALSE, base |-> 0, returned |-> 0]

NoError == [message |-> "<none>", call |-> 0]

NoRetry ==
    [maxAttempts |-> 0, hasPredicate |-> FALSE, backoff |-> NoBackoff, pc |-> "none",
     attempt |-> 0, fnCalls |-> 0, lastError |-> NoError, delay |-> 0,
     onRetryCalls |-> 0, onRetryArgs |-> <<>>, result |-> 0, thrown |-> NoError]

NoShutdown ==
    [isRunning |-> FALSE, loops |-> <<>>, lastStart |-> "none",
     isShuttingDown |-> FALSE, step |-> "off", hangs |-> FALSE, hardTimeout |-> "unset",
     trigger |-> "none", ignored |-> 0, exitCode |-> -1]

\* the heartbeat key holds no value
NoHeartbeat == -1

NoWatch ==
    [now |-> 0, heartbeat |-> NoHeartbeat, cycles |-> 0, lastCheck |-> "off",
     alertsSent |-> 0]

NoAlerts == [now |-> 0, lastSent |-> 0, calls |-> <<>>, sent |-> <<>>]

NoStop == [state |-> NoSnap, store |-> Absent, queue |-> <<>>, cyc |-> "off",
           stp |-> "off", isRunning |-> FALSE, operable |-> FALSE, cycles |-> 0,
           finished |-> FALSE]

NoRelease == [holder |-> "none", isHeld |-> FALSE, timerOn |-> FALSE, queue |-> <<>>,
              release |-> "off", lost |-> FALSE, raced |-> FALSE, ticks |-> 0]

\* the variables of SpecStop and SpecRelease at rest
RaceIdle == sr = NoStop /\ lk = NoRelease

UtilIdle ==
    /\ bk = NoBackoff /\ rt = NoRetry /\ gs = NoShutdown /\ wd = NoWatch /\ al = NoAlerts
    /\ RaceIdle

OrchIdle ==
    /\ oCfg = NoConfig /\ oStore = Absent /\ oState = NoSnap /\ oPc = "off"
    /\ oBoot = FALSE /\ oStreak = -1 /\ oLast = NoCycle /\ oBackoff = 0

ProcIdle ==
    /\ useMock = FALSE /\ lockVal = <<>> /\ lockTtl = <<>> /\ lockAge = <<>>
    /\ stateRec = <<>> /\ pc = <<>> /\ isHeld = <<>> /\ timerOn = <<>>
    /\ renewDue = <<>> /\ botState = <<>> /\ isRunning = <<>> /\ cyc = <<>>
    /\ sd = <<>> /\ hist = <<>>

SMInit ==
    /\ ProcIdle
    /\ EvalIdle
    /\ OrchIdle
    /\ UtilIdle
    /\ \/ /\ smStore \in {Absent, EmptyText, GarbageText, NullJsonText}
          /\ smSaved = NoSnap
       \/ \E s \in SMStoredSnapshots : smStore = saveStateText(s) /\ smSaved = s
    /\ smCur = NoSnap
    /\ smLast = NoCall
    /\ smRun = -1

\* state = await loadState()
SM_loadState ==
    \E readFails \in BOOLEAN :
        LET threw == loadStateThrows(readFails)
        IN  /\ smLast' = [NoCall EXCEPT !.op = "loadState", !.threw = threw,
                                        !.fault = IF readFails THEN "read" ELSE "none"]
            /\ smCur' = IF threw THEN smCur ELSE loadStateValue(smStore)
            /\ smRun' = RunBase(smCur')
            /\ UNCHANGED <<smStore, smSaved>>
            /\ UNCHANGED <<procVars, ocVars>>

\* the save inside transitionState, and what the caller is left holding: a
\* rejected redis.set rejects the call, and the assignment never happens
SM_save(op, updated, newState, updates, error, writeFails) ==
    /\ smLast' = [op |-> op, newState |-> newState, updates |-> updates, error |-> error,
                  fault |-> IF writeFails THEN "write" ELSE "none", threw |-> writeFails]
    /\ smStore' = IF writeFails THEN smStore ELSE saveStateText(updated)
    /\ smSaved' = IF writeFails THEN smSaved ELSE updated
    /\ smCur' = IF writeFails THEN smCur ELSE updated

\* state = await transitionState(state, newState, updates)
SM_transitionState ==
    /\ smCur # NoSnap
    /\ \E newState \in BotStates, updates \in SMUpdates, writeFails \in BOOLEAN :
          SM_save("transitionState", updatedState(smCur, newState, updates),
                  newState, updates, Null, writeFails)
    /\ smRun' = RunBase(smCur')
    /\ UNCHANGED <<procVars, ocVars>>

\* state = await recordFailure(state, error)
SM_recordFailure ==
    /\ smCur # NoSnap
    /\ smCur.consecutiveFailures < MaxFailCount
    /\ \E error \in ErrorTexts, writeFails \in BOOLEAN :
          /\ SM_save("recordFailure", recordFailureState(smCur, error),
                     "<none>", NoUpdates, error, writeFails)
          /\ smRun' = IF writeFails THEN RunBase(smCur)
                      ELSE IF smRun >= 0 THEN smRun + 1 ELSE -1
    /\ UNCHANGED <<procVars, ocVars>>

\* state = await recordSuccess(state)
SM_recordSuccess ==
    /\ smCur # NoSnap
    /\ IF recordSuccessIsNoop(smCur)
       THEN /\ smLast' = [NoCall EXCEPT !.op = "recordSuccess"]
            /\ smCur' = recordSuccessState(smCur)
            /\ UNCHANGED <<smStore, smSaved>>
       ELSE \E writeFails \in BOOLEAN :
               SM_save("recordSuccess", recordSuccessState(smCur),
                       "<none>", NoUpdates, Null, writeFails)
    /\ smRun' = RunBase(smCur')
    /\ UNCHANGED <<procVars, ocVars>>

\* await clearState()
SM_clearState ==
    /\ smStore' = Absent
    /\ smSaved' = NoSnap
    /\ smLast' = [NoCall EXCEPT !.op = "clearState"]
    /\ UNCHANGED <<smCur, smRun>>
    /\ UNCHANGED <<procVars, ocVars>>

SMNext ==
    \/ SM_loadState
    \/ SM_transitionState
    \/ SM_recordFailure
    \/ SM_recordSuccess
    \/ SM_clearState

SpecSM == SMInit /\ [][SMNext]_vars

(***************************************************************************)
(* Spec: bot processes over the lock store                                 *)
(***************************************************************************)
\* the processes started (each runs main() of index.ts once)
Procs == {1, 2}

\* DistributedLock.lockValue of the instance of process p: unique per instance
Token(p) == p
NoToken == 0

\* the store a process talks to: the shared Redis, or with USE_MOCK_REDIS the
\* mockStorage map of its own process
SharedStore == 0
Stores == {SharedStore} \cup Procs
StoreOf(p) == IF useMock THEN p ELSE SharedStore

\* config.DISTRIBUTED_LOCK_TTL_MS (30000) counted in renewal intervals
\* (config.DISTRIBUTED_LOCK_RENEWAL_MS, 10000): one tick is one interval
LockTtlTicks == 3
\* a key with no expiry set
NoExpiry == -1

\* the most failures in a row the cycles of one process are let to record
MaxLoopFailures == 1

\* redis.set(key, value, 'EX', ttl, 'NX'): the mock stores and answers OK whatever
\* the key holds; Redis stores only when the key is absent
setNxReply(mock, held) == IF mock \/ held = NoToken THEN "OK" ELSE "nil"
setNxValue(mock, held, token) == IF mock \/ held = NoToken THEN token ELSE held

\* an acquire that hands EX the TTL in milliseconds
setNxTtl_Millis(mock, held, ttl) ==
    IF mock THEN NoExpiry ELSE IF held = NoToken THEN LockTtlTicks * 1000 ELSE ttl

\* the expiry the key has after the SET: the mock ignores 'EX'
setNxTtl(mock, held, ttl) ==
    IF mock THEN NoExpiry ELSE IF held = NoToken THEN LockTtlTicks ELSE ttl

\* the Lua guard of both scripts, `redis.call("get", KEYS[1]) == ARGV[1]`, and
\* their reply; the mock's eval answers 1 and runs no script
evalReply(mock, held, token) == IF mock \/ held = token THEN 1 ELSE 0
\* release's script: `redis.call("del", KEYS[1])` under the guard
evalDelValue(mock, held, token) == IF ~mock /\ held = token THEN NoToken ELSE held
evalDelTtl(mock, held, token, ttl) == IF ~mock /\ held = token THEN NoExpiry ELSE ttl
\* renewal's script: `redis.call("expire", KEYS[1], ARGV[2])` under the guard
evalExpireTtl(mock, held, token, ttl) == IF ~mock /\ held = token THEN LockTtlTicks ELSE ttl

\* an acquireOrExit that returns the lock although acquire() returned false
acquireFailedPc_GoesOn(cur) == "initialize"

\* process.exit(1) of acquireOrExit when acquire() returned false
acquireFailedPc(cur) == "exited"

\* a renewal callback that only logs the loss of the lock
lockLostPc_GoesOn(cur) == cur

\* process.exit(1) of the renewal callback when the script answered 0
lockLostPc(cur) == "exited"

Alive(p) == pc[p] \notin {"exited", "crashed"}

\* what an instance has done so far: the outcome of its acquire() and of its
\* release(), a lock loss detected, state read or a cycle run, a state write
\* while the lock record did not store its token, any of these after the loss
NoHist == [acquire |-> "none", release |-> "none", lost |-> FALSE, touched |-> FALSE,
           wroteUnlocked |-> FALSE, actedAfterLoss |-> FALSE]

\* the text the cycle's failures carry
CycleError == "cycle error"

\* observation of a state read, a cycle or (isWrite) a state write of p
Noted(p, isWrite) ==
    [hist EXCEPT ![p].touched = TRUE,
                 ![p].wroteUnlocked = @ \/ (isWrite /\ lockVal[StoreOf(p)] # Token(p)),
                 ![p].actedAfterLoss = @ \/ hist[p].lost]

SMIdle ==
    /\ smStore = Absent /\ smCur = NoSnap /\ smLast = NoCall /\ smRun = -1
    /\ smSaved = NoSnap

ProcInit(mockChoices) ==
    /\ SMIdle
    /\ EvalIdle
    /\ OrchIdle
    /\ UtilIdle
    /\ useMock \in mockChoices
    /\ lockVal = [s \in Stores |-> NoToken]
    /\ lockTtl = [s \in Stores |-> NoExpiry]
    /\ lockAge = [s \in Stores |-> 0]
    /\ stateRec = [s \in Stores |-> Absent]
    /\ pc = [p \in Procs |-> "boot"]
    /\ isHeld = [p \in Procs |-> FALSE]
    /\ timerOn = [p \in Procs |-> FALSE]
    /\ renewDue = [p \in Procs |-> FALSE]
    /\ botState = [p \in Procs |-> NoSnap]
    /\ isRunning = [p \in Procs |-> FALSE]
    /\ cyc = [p \in Procs |-> "idle"]
    /\ sd = [p \in Procs |-> "none"]
    /\ hist = [p \in Procs |-> NoHist]

Init == ProcInit(BOOLEAN)

lockUnch == UNCHANGED <<lockVal, lockTtl, lockAge>>
dlUnch == UNCHANGED <<isHeld, timerOn, renewDue>>
orchUnch == UNCHANGED <<botState, isRunning, cyc>>

\* the faults a call to the store can end in: a command of the ioredis client can
\* reject, the functions of the mock never do
StoreFaults == IF useMock THEN {FALSE} ELSE BOOLEAN

\* the process ends (process.exit, or a kill): its memory is gone, and with it
\* the mockStorage map if that is its store
Gone(p, how) ==
    /\ lockVal' = IF useMock THEN [lockVal EXCEPT ![p] = NoToken] ELSE lockVal
    /\ lockTtl' = IF useMock THEN [lockTtl EXCEPT ![p] = NoExpiry] ELSE lockTtl
    /\ lockAge' = IF useMock THEN [lockAge EXCEPT ![p] = 0] ELSE lockAge
    /\ stateRec' = IF useMock THEN [stateRec EXCEPT ![p] = Absent] ELSE stateRec
    /\ pc' = [pc EXCEPT ![p] = how]
    /\ isHeld' = [isHeld EXCEPT ![p] = FALSE]
    /\ timerOn' = [timerOn EXCEPT ![p] = FALSE]
    /\ renewDue' = [renewDue EXCEPT ![p] = FALSE]
    /\ botState' = [botState EXCEPT ![p] = NoSnap]
    /\ isRunning' = [isRunning EXCEPT ![p] = FALSE]
    /\ cyc' = [cyc EXCEPT ![p] = "idle"]
    /\ sd' = [sd EXCEPT ![p] = "none"]

\* main: installSignalHandlers, then healthCheckRedis; unhealthy exits
HealthCheck(p) ==
    /\ pc[p] = "boot"
    /\ \E pingFails \in StoreFaults :
          IF pingFails
          THEN Gone(p, "exited")
          ELSE /\ pc' = [pc EXCEPT ![p] = "acquire"]
               /\ lockUnch /\ dlUnch /\ orchUnch /\ UNCHANGED <<stateRec, sd>>
    /\ UNCHANGED <<useMock, hist, smVars, ocVars>>

\* acquireOrExit: DistributedLock.acquire sends the SET; on 'OK' isHeld,
\* startRenewal, and main goes on with the lock (setLockForShutdown); on any other
\* reply process.exit(1); a rejected SET rejects main(), whose catch exits
Acquire(p) ==
    /\ pc[p] = "acquire"
    /\ \E rejects \in StoreFaults :
          LET s == StoreOf(p)
              reply == setNxReply(useMock, lockVal[s])
              failedPc == acquireFailedPc(pc[p])
          IN  IF rejects
              THEN /\ Gone(p, "exited")
                   /\ hist' = [hist EXCEPT ![p].acquire = "threw"]
              ELSE /\ hist' = [hist EXCEPT ![p].acquire = reply]
                   /\ IF reply = "OK"
                      THEN /\ lockVal' = [lockVal EXCEPT ![s] = setNxValue(useMock, lockVal[s], Token(p))]
                           /\ lockTtl' = [lockTtl EXCEPT ![s] = setNxTtl(useMock, lockVal[s], lockTtl[s])]
                           /\ lockAge' = [lockAge EXCEPT ![s] = 0]
                           /\ isHeld' = [isHeld EXCEPT ![p] = TRUE]
                           /\ timerOn' = [timerOn EXCEPT ![p] = TRUE]
                           /\ renewDue' = [renewDue EXCEPT ![p] = FALSE]
                           /\ pc' = [pc EXCEPT ![p] = "initialize"]
                           /\ orchUnch /\ UNCHANGED <<stateRec, sd>>
                      ELSE IF failedPc = "exited"
                      THEN Gone(p, "exited")
                      ELSE /\ pc' = [pc EXCEPT ![p] = failedPc]
                           /\ lockUnch /\ dlUnch /\ orchUnch /\ UNCHANGED <<stateRec, sd>>
    /\ UNCHANGED <<useMock, smVars, ocVars>>

\* Orchestrator.initialize (loadState, onShutdown) and the entry of start(); a
\* rejected redis.get rejects main(), whose catch exits
Initialize(p) ==
    /\ pc[p] = "initialize"
    /\ \E readFails \in StoreFaults :
          IF loadStateThrows(readFails)
          THEN /\ Gone(p, "exited")
               /\ UNCHANGED hist
          ELSE /\ botState' = [botState EXCEPT ![p] = loadStateValue(stateRec[StoreOf(p)])]
               /\ isRunning' = [isRunning EXCEPT ![p] = TRUE]
               /\ cyc' = [cyc EXCEPT ![p] = "top"]
               /\ pc' = [pc EXCEPT ![p] = "running"]
               /\ hist' = Noted(p, FALSE)
               /\ lockUnch /\ dlUnch /\ UNCHANGED <<stateRec, sd>>
    /\ UNCHANGED <<useMock, smVars, ocVars>>

\* a loop condition that leaves the shutdown flag out
loopGoesOn_IgnoresShutdown(running, shutdownInProgress) == running

\* `this.isRunning && !isShutdownInProgress()`
loopGoesOn(running, shutdownInProgress) == running /\ ~shutdownInProgress

\* Orchestrator.start, once the sleeps of the last pass (backoff.wait, the loop
\* interval) are over: `while (this.isRunning && !isShutdownInProgress())`, and
\* runCycle up to its first await: `if (!this.state || !canOperate(this.state))`
\* returns at once, to the sleep before the next pass
LoopTop(p) ==
    /\ pc[p] = "running" /\ cyc[p] = "top"
    /\ IF ~loopGoesOn(isRunning[p], sd[p] # "none")
       THEN cyc' = [cyc EXCEPT ![p] = "done"] /\ UNCHANGED hist
       ELSE IF botState[p] = NoSnap \/ ~canOperate(botState[p])
       THEN cyc' = [cyc EXCEPT ![p] = "top"] /\ UNCHANGED hist
       ELSE cyc' = [cyc EXCEPT ![p] = "inflight"] /\ hist' = Noted(p, FALSE)
    /\ UNCHANGED <<botState, isRunning>>
    /\ lockUnch /\ dlUnch
    /\ UNCHANGED <<useMock, stateRec, pc, sd, smVars, ocVars>>

\* the save of the loop's recordSuccess / recordFailure, and the assignment of
\* what it returns to this.state
CycleSave(p, updated) ==
    /\ stateRec' = [stateRec EXCEPT ![StoreOf(p)] = saveStateText(updated)]
    /\ botState' = [botState EXCEPT ![p] = updated]
    /\ cyc' = [cyc EXCEPT ![p] = "top"]
    /\ hist' = Noted(p, TRUE)
    /\ lockUnch /\ dlUnch /\ UNCHANGED <<pc, isRunning, sd>>

\* the cycle ends with no state write
CycleNoSave(p) ==
    /\ cyc' = [cyc EXCEPT ![p] = "top"]
    /\ lockUnch /\ dlUnch /\ UNCHANGED <<stateRec, botState, pc, isRunning, sd, hist>>

\* the catch of start(): recordFailure(this.state, message); when its save
\* rejects, the rejection leaves start() and main().catch exits
CycleFailed(p) ==
    \E writeFails \in StoreFaults :
        IF writeFails
        THEN /\ Gone(p, "exited")
             /\ UNCHANGED hist
        ELSE /\ botState[p].consecutiveFailures < MaxLoopFailures
             /\ CycleSave(p, recordFailureState(botState[p], CycleError))

\* the end of runCycle: a return without accounting (dry run, bootstrap), the
\* closing recordSuccess, or an exception that escapes to the catch of start()
CycleFinish(p) ==
    /\ pc[p] = "running" /\ cyc[p] = "inflight"
    /\ \E outcome \in {"return", "success", "throw"} :
          IF outcome = "return" \/ (outcome = "success" /\ recordSuccessIsNoop(botState[p]))
          THEN CycleNoSave(p)
          ELSE IF outcome = "success"
          THEN \E writeFails \in StoreFaults :
                  IF writeFails THEN CycleFailed(p)
                  ELSE CycleSave(p, recordSuccessState(botState[p]))
          ELSE CycleFailed(p)
    /\ UNCHANGED <<useMock, smVars, ocVars>>

\* SIGINT, SIGTERM, uncaughtException or unhandledRejection: gracefulShutdown
\* sets isShuttingDown (unless it is set already) and runs the handlers, that is
\* Orchestrator.stop once initialize has registered it. stop() clears isRunning
\* and, when the state can operate, saves the SHUTTING_DOWN transition; a rejected
\* save is caught by the handler loop
Signal(p) ==
    /\ Alive(p) /\ sd[p] = "none"
    /\ sd' = [sd EXCEPT ![p] = "release"]
    /\ IF pc[p] = "running" /\ isRunning[p]
       THEN /\ isRunning' = [isRunning EXCEPT ![p] = FALSE]
            /\ IF botState[p] # NoSnap /\ canOperate(botState[p])
               THEN \E writeFails \in StoreFaults :
                       IF writeFails
                       THEN UNCHANGED <<stateRec, botState, hist>>
                       ELSE LET updated == updatedState(botState[p], "SHUTTING_DOWN", NoUpdates) IN
                            /\ stateRec' = [stateRec EXCEPT ![StoreOf(p)] = saveStateText(updated)]
                            /\ botState' = [botState EXCEPT ![p] = updated]
                            /\ hist' = Noted(p, TRUE)
               ELSE UNCHANGED <<stateRec, botState, hist>>
       ELSE UNCHANGED <<isRunning, stateRec, botState, hist>>
    /\ UNCHANGED cyc
    /\ lockUnch /\ dlUnch
    /\ UNCHANGED <<useMock, pc, smVars, ocVars>>

\* gracefulShutdown: `if (currentLock) await currentLock.release()`. release()
\* returns false at once when !isHeld; else stopRenewal, the compare-and-delete
\* script, `this.isHeld = result === 1; return result === 1`; a rejected eval is
\* caught by gracefulShutdown
Release(p) ==
    /\ Alive(p) /\ sd[p] = "release"
    /\ sd' = [sd EXCEPT ![p] = "close"]
    /\ IF pc[p] \in {"boot", "acquire"}
       THEN UNCHANGED <<lockVal, lockTtl, isHeld, timerOn, hist>>
       ELSE IF ~isHeld[p]
       THEN /\ hist' = [hist EXCEPT ![p].release = "false"]
            /\ UNCHANGED <<lockVal, lockTtl, isHeld, timerOn>>
       ELSE /\ timerOn' = [timerOn EXCEPT ![p] = FALSE]
            /\ \E rejects \in StoreFaults :
                  LET s == StoreOf(p)
                      result == evalReply(useMock, lockVal[s], Token(p))
                  IN  IF rejects
                      THEN /\ hist' = [hist EXCEPT ![p].release = "threw"]
                           /\ UNCHANGED <<lockVal, lockTtl, isHeld>>
                      ELSE /\ lockVal' = [lockVal EXCEPT ![s] = evalDelValue(useMock, lockVal[s], Token(p))]
                           /\ lockTtl' = [lockTtl EXCEPT ![s] = evalDelTtl(useMock, lockVal[s], Token(p), lockTtl[s])]
                           /\ isHeld' = [isHeld EXCEPT ![p] = (result = 1)]
                           /\ hist' = [hist EXCEPT ![p].release = IF result = 1 THEN "true" ELSE "false"]
    /\ UNCHANGED <<lockAge, renewDue>>
    /\ orchUnch
    /\ UNCHANGED <<useMock, stateRec, pc, smVars, ocVars>>

\* gracefulShutdown: closeRedis, then process.exit(0)
CloseAndExit(p) ==
    /\ Alive(p) /\ sd[p] = "close"
    /\ Gone(p, "exited")
    /\ UNCHANGED <<useMock, hist, smVars, ocVars>>

\* the held flag after a renewal whose eval rejected: the catch block of the
\* callback logs the error and assigns nothing
heldAfterRenewalError_Lost(held) == FALSE

heldAfterRenewalError(held) == held

\* the setInterval callback of startRenewal: `if (!this.isHeld)` stops the timer;
\* else the compare-and-expire script. A rejected eval is caught and only logged;
\* a result other than 1 clears isHeld, stops the timer and ends in process.exit(1)
Renew(p) ==
    /\ Alive(p) /\ timerOn[p] /\ renewDue[p]
    /\ IF ~isHeld[p]
       THEN /\ timerOn' = [timerOn EXCEPT ![p] = FALSE]
            /\ renewDue' = [renewDue EXCEPT ![p] = FALSE]
            /\ lockUnch /\ orchUnch
            /\ UNCHANGED <<stateRec, isHeld, pc, sd, hist>>
       ELSE \E rejects \in StoreFaults :
               LET s == StoreOf(p)
                   result == evalReply(useMock, lockVal[s], Token(p))
                   lostPc == lockLostPc(pc[p])
               IN  IF rejects
                   THEN /\ renewDue' = [renewDue EXCEPT ![p] = FALSE]
                        /\ isHeld' = [isHeld EXCEPT ![p] = heldAfterRenewalError(isHeld[p])]
                        /\ lockUnch /\ orchUnch
                        /\ UNCHANGED <<stateRec, timerOn, pc, sd, hist>>
                   ELSE IF result = 1
                   THEN /\ lockTtl' = [lockTtl EXCEPT ![s] = evalExpireTtl(useMock, lockVal[s], Token(p), lockTtl[s])]
                        /\ lockAge' = [lockAge EXCEPT ![s] = 0]
                        /\ renewDue' = [renewDue EXCEPT ![p] = FALSE]
                        /\ orchUnch
                        /\ UNCHANGED <<lockVal, stateRec, isHeld, timerOn, pc, sd, hist>>
                   ELSE /\ hist' = [hist EXCEPT ![p].lost = TRUE]
                        /\ IF lostPc = "exited"
                           THEN Gone(p, "exited")
                           ELSE /\ isHeld' = [isHeld EXCEPT ![p] = FALSE]
                                /\ timerOn' = [timerOn EXCEPT ![p] = FALSE]
                                /\ renewDue' = [renewDue EXCEPT ![p] = FALSE]
                                /\ pc' = [pc EXCEPT ![p] = lostPc]
                                /\ lockUnch /\ orchUnch /\ UNCHANGED <<stateRec, sd>>
    /\ UNCHANGED <<useMock, smVars, ocVars>>

\* one renewal interval passes: every running timer falls due, and a key whose
\* time to live runs out is removed by Redis. A callback that is due runs before
\* the next interval ends
Tick ==
    /\ \A p \in Procs : ~(timerOn[p] /\ renewDue[p])
    /\ renewDue' = [p \in Procs |-> timerOn[p]]
    /\ lockTtl' = [s \in Stores |->
                      IF lockTtl[s] = NoExpiry \/ lockTtl[s] = 1 THEN NoExpiry
                      ELSE lockTtl[s] - 1]
    /\ lockVal' = [s \in Stores |-> IF lockTtl[s] = 1 THEN NoToken ELSE lockVal[s]]
    /\ lockAge' = [s \in Stores |->
                      IF lockTtl[s] # NoExpiry /\ lockAge[s] < LockTtlTicks
                      THEN lockAge[s] + 1 ELSE lockAge[s]]
    /\ UNCHANGED <<isHeld, timerOn>>
    /\ orchUnch
    /\ UNCHANGED <<useMock, stateRec, pc, sd, hist, smVars, ocVars>>

\* the process is killed (SIGKILL, power loss): nothing of it runs again
Crash(p) ==
    /\ Alive(p) /\ pc[p] # "boot"
    /\ Gone(p, "crashed")
    /\ UNCHANGED <<useMock, hist, smVars, ocVars>>

Next ==
    \/ \E p \in Procs : HealthCheck(p)
    \/ \E p \in Procs : Acquire(p)
    \/ \E p \in Procs : Initialize(p)
    \/ \E p \in Procs : LoopTop(p)
    \/ \E p \in Procs : CycleFinish(p)
    \/ \E p \in Procs : Signal(p)
    \/ \E p \in Procs : Release(p)
    \/ \E p \in Procs : CloseAndExit(p)
    \/ \E p \in Procs : Renew(p)
    \/ \E p \in Procs : Crash(p)
    \/ Tick

Spec == Init /\ [][Next]_vars

\* the same processes with the Redis server as their store
InitRedis == ProcInit({FALSE})
SpecRedis == InitRedis /\ [][Next]_vars

(***************************************************************************)
(* SpecEval: evaluateRebalance applied once to each input                  *)
(***************************************************************************)
\* the snapshots passed as `state`: IDLE and two states that are not IDLE, each
\* with outOfRangeSince null or a time stamp
EvalStates ==
    { [getDefaultState EXCEPT !.currentState = c, !.outOfRangeSince = t] :
        c \in {"IDLE", "REBALANCING", "ERROR_RECOVERY"}, t \in {NoTime, 1, 3} }

\* lpDelta and hedgeDelta: 1000/-950 and 20/-19 drift by exactly 5%, 1000/-951 by
\* less, 1000/-1100 by 10% the other way; lpDelta = 0 divides by 1
LpDeltas == {0, 20, 1000}

HedgeDeltas == {0, -1, -19, -950, -951, -1100}

\* gas costs at and around the limit
GasCosts == {0, MaxGasCostLamports, MaxGasCostLamports + 1}

\* UTC minutes of the day at and around both ends of the quiet hours
UtcMinutes == {869, 870, 915, 916}

\* Date.now() of the call, in ticks
EvalTimes == {3, 4}

EvalInputs ==
    [state : EvalStates, lpDelta : LpDeltas, hedgeDelta : HedgeDeltas,
     estimatedGasCost : GasCosts, isLpInRange : BOOLEAN,
     currentUTC : UtcMinutes, now : EvalTimes]

EvalInit ==
    /\ SMIdle
    /\ ProcIdle
    /\ OrchIdle
    /\ UtilIdle
    /\ evIn \in EvalInputs
    /\ evOut = NoDecision

\* decision = evaluateRebalance(state, lpDelta, hedgeDelta, estimatedGasCost, isLpInRange)
Eval_evaluateRebalance ==
    /\ evOut = NoDecision
    /\ evOut' = evaluateRebalance(evIn.state, evIn.lpDelta, evIn.hedgeDelta,
                                  evIn.estimatedGasCost, evIn.isLpInRange,
                                  evIn.currentUTC, evIn.now)
    /\ UNCHANGED <<evIn, orchVars, utilVars, smVars, procVars>>

EvalNext == Eval_evaluateRebalance

SpecEval == EvalInit /\ [][EvalNext]_vars

(***************************************************************************)
(* utils/backoff.ts: the Backoff class                                     *)
(***************************************************************************)
Min(a, b) == IF a <= b THEN a ELSE b

\* Math.round of the rational p/q (q > 0, p >= 0): the nearest integer, halves up
MathRound(p, q) == (2 * p + q) \div (2 * q)

\* the values Math.random() is drawn from: j/JitterSteps for j in 0..JitterSteps-1,
\* and the largest value below 1
JitterSteps == 8

\* getNextDelay with a jitter of half the running delay
getNextDelayValues_HalfJitter(initialDelay, delay) ==
    { MathRound(Max(initialDelay * 4 * JitterSteps, delay * (2 * JitterSteps + 4 * j)),
                4 * JitterSteps) : j \in 0..(JitterSteps - 1) }

\* what getNextDelay returns for a running delay: with r = Math.random(),
\* delay + jitter = delay * (3 + 2r) / 4, raised to initialDelay, then rounded;
\* the last set is the value for r just below 1
getNextDelayValues(initialDelay, delay) ==
    { MathRound(Max(initialDelay * 4 * JitterSteps, delay * (3 * JitterSteps + 2 * j)),
                4 * JitterSteps) : j \in 0..(JitterSteps - 1) }
    \cup { IF 4 * initialDelay >= 5 * delay THEN initialDelay
                                           ELSE ((5 * delay + 5) \div 4) - 1 }

\* the running delay grown without the cap
nextCurrentDelay_Uncapped(currentDelay, multiplier, maxDelay) ==
    currentDelay * multiplier

\* the running delay getNextDelay leaves for the next call
nextCurrentDelay(currentDelay, multiplier, maxDelay) ==
    Min(currentDelay * multiplier, maxDelay)

\* the configuration's defaults, which the Backoff of the orchestrator is built with
BackoffInitialMs == 1000
BackoffMaxMs == 60000
BackoffMultiplier == 2

\* the constructor arguments: the configuration's defaults and those of the tests
BackoffParams == { <<1000, 60000, 2>>, <<1000, 5000, 2>>, <<10, 100, 2>> }

\* getNextDelay calls followed between two resets
MaxEmissions == 8

BackoffInit ==
    /\ SMIdle
    /\ ProcIdle
    /\ EvalIdle
    /\ OrchIdle
    /\ rt = NoRetry /\ gs = NoShutdown /\ wd = NoWatch /\ al = NoAlerts /\ RaceIdle
    /\ \E a \in BackoffParams :
          bk = [NoBackoff EXCEPT !.initialDelay = a[1], !.maxDelay = a[2],
                                 !.multiplier = a[3], !.currentDelay = a[1],
                                 !.lastCall = "new"]

backoffOthers == <<sr, lk, al, rt, gs, wd, evalVars, orchVars, smVars, procVars>>

B_getNextDelay ==
    /\ bk.lastCall # "none"
    /\ bk.emissions < MaxEmissions
    /\ \E r \in getNextDelayValues(bk.initialDelay, bk.currentDelay) :
          bk' = [bk EXCEPT !.lastCall = "getNextDelay",
                           !.emissions = @ + 1,
                           !.base = bk.currentDelay,
                           !.returned = r,
                           !.currentDelay =
                               nextCurrentDelay(bk.currentDelay, bk.multiplier, bk.maxDelay)]
    /\ UNCHANGED backoffOthers

B_reset ==
    /\ bk.lastCall # "none"
    /\ bk' = [bk EXCEPT !.lastCall = "reset", !.emissions = 0, !.wasReset = TRUE,
                        !.currentDelay = bk.initialDelay]
    /\ UNCHANGED backoffOthers

BackoffNext ==
    \/ B_getNextDelay
    \/ B_reset

SpecBackoff == BackoffInit /\ [][BackoffNext]_vars

(***************************************************************************)
(* utils/backoff.ts: withRetry                                             *)
(***************************************************************************)
\* options.maxAttempts, options.backoff (constructor arguments) and whether
\* options.shouldRetry is given, as the tests give it; <<>> for an option left out
RetryMaxAttempts == {<<>>, <<1>>, <<3>>}
RetryBackoffs == {<<>>, <<10, 100, 2>>}

\* options.maxAttempts ?? 5
maxAttemptsOf(option) == IF option = <<>> THEN 5 ELSE option[1]

\* options.backoff ?? new Backoff()
backoffOf(option) ==
    LET a == IF option = <<>>
             THEN <<BackoffInitialMs, BackoffMaxMs, BackoffMultiplier>> ELSE option
    IN  [NoBackoff EXCEPT !.initialDelay = a[1], !.maxDelay = a[2], !.multiplier = a[3],
                          !.currentDelay = a[1], !.lastCall = "new"]

\* options.shouldRetry ?? (() => true); the predicate of the tests refuses 'permanent'
shouldRetry(hasPredicate, error) == hasPredicate => error.message # "permanent"

\* the condition under which the catch block rethrows
rethrows_NeverAtLastAttempt(attempt, maxAttempts, hasPredicate, error) ==
    ~shouldRetry(hasPredicate, error)

rethrows(attempt, maxAttempts, hasPredicate, error) ==
    attempt = maxAttempts \/ ~shouldRetry(hasPredicate, error)

\* what fn does when called: it resolves, or rejects with one of two errors
FnOutcomes == {"resolve", "fail", "permanent"}

RetryInit ==
    /\ SMIdle
    /\ ProcIdle
    /\ EvalIdle
    /\ OrchIdle
    /\ bk = NoBackoff /\ gs = NoShutdown /\ wd = NoWatch /\ al = NoAlerts /\ RaceIdle
    /\ \E m \in RetryMaxAttempts, b \in RetryBackoffs, p \in BOOLEAN :
          rt = [NoRetry EXCEPT !.maxAttempts = maxAttemptsOf(m), !.hasPredicate = p,
                               !.backoff = backoffOf(b), !.attempt = 1, !.pc = "call"]

retryOthers == <<sr, lk, al, bk, gs, wd, evalVars, orchVars, smVars, procVars>>

\* one pass of the loop body: fn is called and settles; on success the backoff is
\* reset and the result returned, on an error the catch block rethrows it or draws
\* the delay, calls onRetry and starts the sleep
R_attempt ==
    /\ rt.pc = "call"
    /\ \E o \in FnOutcomes :
          LET calls == rt.fnCalls + 1
              error == [message |-> o, call |-> calls]
          IN  IF o = "resolve"
              THEN rt' = [rt EXCEPT !.fnCalls = calls, !.pc = "returned", !.result = calls,
                                    !.backoff.currentDelay = rt.backoff.initialDelay,
                                    !.backoff.lastCall = "reset"]
              ELSE IF rethrows(rt.attempt, rt.maxAttempts, rt.hasPredicate, error)
              THEN rt' = [rt EXCEPT !.fnCalls = calls, !.lastError = error,
                                    !.pc = "threw", !.thrown = error]
              ELSE \E d \in getNextDelayValues(rt.backoff.initialDelay,
                                               rt.backoff.currentDelay) :
                      rt' = [rt EXCEPT !.fnCalls = calls, !.lastError = error,
                                       !.backoff.currentDelay =
                                           nextCurrentDelay(@, rt.backoff.multiplier,
                                                            rt.backoff.maxDelay),
                                       !.backoff.lastCall = "getNextDelay",
                                       !.onRetryCalls = @ + 1,
                                       !.onRetryArgs = <<rt.attempt, error, d>>,
                                       !.delay = d, !.pc = "sleep"]
    /\ UNCHANGED retryOthers

\* the sleep ends: attempt++, then the loop's condition; past the loop, lastError is
\* thrown
R_wake ==
    /\ rt.pc = "sleep"
    /\ rt' = IF rt.attempt + 1 <= rt.maxAttempts
             THEN [rt EXCEPT !.attempt = @ + 1, !.pc = "call", !.delay = 0]
             ELSE [rt EXCEPT !.attempt = @ + 1, !.pc = "threw", !.delay = 0,
                             !.thrown = rt.lastError]
    /\ UNCHANGED retryOthers

RetryNext ==
    \/ R_attempt
    \/ R_wake

\* fn settles and the timer of sleep fires
SpecRetry == RetryInit /\ [][RetryNext]_vars /\ WF_vars(R_attempt) /\ WF_vars(R_wake)

(***************************************************************************)
(* SpecShutdown: start() and stop() of one Orchestrator, and gracefulShutdown *)
(***************************************************************************)
\* the calls of start() that get past `if (this.isRunning) return`
MaxLoops == 2
\* the triggers that arrive while a shutdown is in progress
MaxIgnored == 1

\* process.on(...) of installSignalHandlers
Triggers == {"SIGINT", "SIGTERM", "uncaughtException", "unhandledRejection"}

\* a gracefulShutdown that sets no timer
hardTimeoutSet_Never == "unset"

\* setTimeout(() => process.exit(1), HARD_TIMEOUT_MS)
hardTimeoutSet == "armed"

ShutdownInit ==
    /\ SMIdle
    /\ ProcIdle
    /\ EvalIdle
    /\ OrchIdle
    /\ bk = NoBackoff /\ rt = NoRetry /\ wd = NoWatch /\ al = NoAlerts /\ RaceIdle
    /\ gs = [NoShutdown EXCEPT !.step = "none"]

shutdownOthers == <<sr, lk, al, bk, rt, wd, evalVars, orchVars, smVars, procVars>>

\* the while condition of start(), evaluated by the call of start() numbered i
WhileCheck(g, i) ==
    [g EXCEPT !.loops[i] = IF loopGoesOn(g.isRunning, g.isShuttingDown)
                           THEN "cycle" ELSE "returned"]

\* start(): returns at once when isRunning, else sets it and enters the loop
S_start ==
    /\ gs.step \notin {"off", "exited"}
    /\ IF gs.isRunning
       THEN gs' = [gs EXCEPT !.lastStart = "ignored"]
       ELSE /\ Len(gs.loops) < MaxLoops
            /\ gs' = WhileCheck([gs EXCEPT !.isRunning = TRUE, !.lastStart = "started",
                                           !.loops = Append(@, "cycle")],
                                Len(gs.loops) + 1)
    /\ UNCHANGED shutdownOthers

\* stop(), called by another caller than the shutdown handler
S_stop ==
    /\ gs.step \notin {"off", "exited"}
    /\ gs.isRunning
    /\ gs' = [gs EXCEPT !.isRunning = FALSE]
    /\ UNCHANGED shutdownOthers

\* runCycle of a loop settles: an exception leads to the backoff wait; else, and
\* after the backoff, `if (sleepTime > 0 && this.isRunning) await sleep(sleepTime)`,
\* then the while condition. The sleep that ends leads to the while condition
S_loopStep(i) ==
    /\ gs.step \notin {"off", "exited"}
    /\ i \in DOMAIN gs.loops
    /\ \/ /\ gs.loops[i] = "cycle"
          /\ gs' = [gs EXCEPT !.loops[i] = "backoff"]
       \/ /\ gs.loops[i] \in {"cycle", "backoff"}
          /\ \E sleepTimeIsPositive \in BOOLEAN :
                gs' = IF sleepTimeIsPositive /\ gs.isRunning
                      THEN [gs EXCEPT !.loops[i] = "sleep"]
                      ELSE WhileCheck(gs, i)
       \/ /\ gs.loops[i] = "sleep"
          /\ gs' = WhileCheck(gs, i)
    /\ UNCHANGED shutdownOthers

\* a signal or an uncaught failure calls gracefulShutdown: ignored when a shutdown
\* is in progress; else the flag, the hard timeout, and the handler (stop()) up to
\* its await, which may be one that never settles
S_trigger(t) ==
    /\ gs.step \notin {"off", "exited"}
    /\ IF gs.isShuttingDown
       THEN /\ gs.ignored < MaxIgnored
            /\ gs' = [gs EXCEPT !.ignored = @ + 1]
       ELSE \E h \in BOOLEAN :
               gs' = [gs EXCEPT !.isShuttingDown = TRUE, !.trigger = t,
                                !.hardTimeout = hardTimeoutSet,
                                !.step = "handlers", !.hangs = h,
                                !.isRunning = FALSE]
    /\ UNCHANGED shutdownOthers

\* the call gracefulShutdown awaits settles (a rejection is caught and logged), and
\* the next one is made: the handlers, currentLock.release(), closeRedis(), then
\* clearTimeout and process.exit(0)
S_shutdownStep ==
    /\ gs.step \in {"handlers", "release", "close"}
    /\ ~gs.hangs
    /\ \/ /\ gs.step = "handlers"
          /\ \E h \in BOOLEAN : gs' = [gs EXCEPT !.step = "release", !.hangs = h]
       \/ /\ gs.step = "release"
          /\ \E h \in BOOLEAN : gs' = [gs EXCEPT !.step = "close", !.hangs = h]
       \/ /\ gs.step = "close"
          /\ gs' = [gs EXCEPT !.step = "exited", !.hardTimeout = "cleared", !.exitCode = 0]
    /\ UNCHANGED shutdownOthers

\* the hard timeout fires: process.exit(1)
S_hardTimeout ==
    /\ gs.step \in {"handlers", "release", "close"}
    /\ gs.hardTimeout = "armed"
    /\ gs' = [gs EXCEPT !.step = "exited", !.hardTimeout = "fired", !.exitCode = 1]
    /\ UNCHANGED shutdownOthers

ShutdownNext ==
    \/ S_start
    \/ S_stop
    \/ \E i \in 1..MaxLoops : S_loopStep(i)
    \/ \E t \in Triggers : S_trigger(t)
    \/ S_shutdownStep
    \/ S_hardTimeout

\* a call that settles is followed by the next step, and a timer that is set fires
SpecShutdown ==
    ShutdownInit /\ [][ShutdownNext]_vars /\ WF_vars(S_shutdownStep) /\ WF_vars(S_hardTimeout)

(***************************************************************************)
(* SpecWatch: watchdog.ts beside a cycling orchestrator                    *)
(*                                                                         *)
(* Time is counted in loop intervals (LOOP_INTERVAL_MS, 10 s).             *)
(***************************************************************************)
\* MAX_HEARTBEAT_AGE_MS (120000) in loop intervals
MaxHeartbeatAgeTicks == 12
\* the loop intervals followed, and the alerts counted
MaxWatchTime == 14
MaxAlertsSent == 4

\* what an iteration of the loop of start() leaves under HEARTBEAT_KEY: runCycle
\* and the loop write the state key only, and nothing calls sendHeartbeat
heartbeatAfterCycle(heartbeat, now) == heartbeat

\* runCheck on a healthy store: `heartbeat === null || Date.now() - heartbeat >
\* MAX_HEARTBEAT_AGE_MS` leads to handleMissingHeartbeat
heartbeatMissing(heartbeat, now) ==
    heartbeat = NoHeartbeat \/ now - heartbeat > MaxHeartbeatAgeTicks

WatchInit ==
    /\ SMIdle
    /\ ProcIdle
    /\ EvalIdle
    /\ OrchIdle
    /\ bk = NoBackoff /\ rt = NoRetry /\ gs = NoShutdown /\ al = NoAlerts /\ RaceIdle
    /\ wd = [NoWatch EXCEPT !.now = 1, !.lastCheck = "none"]

watchOthers == <<sr, lk, al, bk, rt, gs, evalVars, orchVars, smVars, procVars>>

\* one iteration of the orchestrator's loop, which lasts the loop interval
W_cycle ==
    /\ wd.lastCheck # "off"
    /\ wd.now < MaxWatchTime
    /\ wd' = [wd EXCEPT !.now = @ + 1, !.cycles = @ + 1,
                        !.heartbeat = heartbeatAfterCycle(wd.heartbeat, wd.now)]
    /\ UNCHANGED watchOthers

\* Watchdog.runCheck, at start() and then on its interval timer
W_runCheck ==
    /\ wd.lastCheck # "off"
    /\ wd.alertsSent < MaxAlertsSent
    /\ \E redisHealthy \in BOOLEAN :
          wd' = IF ~redisHealthy
                THEN [wd EXCEPT !.lastCheck = "redis_unhealthy", !.alertsSent = @ + 1]
                ELSE IF heartbeatMissing(wd.heartbeat, wd.now)
                THEN [wd EXCEPT !.lastCheck = "unresponsive", !.alertsSent = @ + 1]
                ELSE [wd EXCEPT !.lastCheck = "healthy"]
    /\ UNCHANGED watchOthers

WatchNext ==
    \/ W_cycle
    \/ W_runCheck

SpecWatch == WatchInit /\ [][WatchNext]_vars

(***************************************************************************)
(* SpecAlert: observability/alerter.ts, the calls of sendAlert for one     *)
(* alert type.  Time is counted in halves of ALERT_RATE_LIMIT_MS.          *)
(***************************************************************************)
\* config.ALERT_RATE_LIMIT_MS in ticks
AlertRateLimitTicks == 2
\* the calls of sendAlert followed, and the ticks of the clock
MaxAlertCalls == 3
MaxAlertTime == 4

\* isRateLimited: lastSent is 0 while the map has no entry for the type
isRateLimited(lastSent, now) ==
    IF lastSent = 0 THEN FALSE ELSE now - lastSent < AlertRateLimitTicks

AlertInit ==
    /\ SMIdle
    /\ ProcIdle
    /\ EvalIdle
    /\ OrchIdle
    /\ bk = NoBackoff /\ rt = NoRetry /\ gs = NoShutdown /\ wd = NoWatch /\ RaceIdle
    /\ al = [NoAlerts EXCEPT !.now = 1, !.calls = [c \in 1..MaxAlertCalls |-> "idle"]]

alertOthers == <<sr, lk, bk, rt, gs, wd, evalVars, orchVars, smVars, procVars>>

\* sendAlert up to its await: the rate limit is read, and unless it applies the
\* request to Telegram is posted
A_sendAlert(c) ==
    /\ c \in DOMAIN al.calls /\ al.calls[c] = "idle"
    /\ al' = [al EXCEPT !.calls[c] = IF isRateLimited(al.lastSent, al.now)
                                     THEN "limited" ELSE "posted"]
    /\ UNCHANGED alertOthers

\* the request settles: when Telegram answered ok the notification went out and
\* recordAlertSent stores Date.now(); any other answer, or an exception, records
\* nothing
A_settle(c) ==
    /\ c \in DOMAIN al.calls /\ al.calls[c] = "posted"
    /\ \E ok \in BOOLEAN :
          al' = IF ok
                THEN [al EXCEPT !.calls[c] = "sent", !.lastSent = al.now,
                                !.sent = Append(@, al.now)]
                ELSE [al EXCEPT !.calls[c] = "failed"]
    /\ UNCHANGED alertOthers

\* time passes
A_tick ==
    /\ al.calls # <<>>
    /\ al.now < MaxAlertTime
    /\ al' = [al EXCEPT !.now = @ + 1]
    /\ UNCHANGED alertOthers

AlertNext ==
    \/ \E c \in 1..MaxAlertCalls : A_sendAlert(c)
    \/ \E c \in 1..MaxAlertCalls : A_settle(c)
    \/ A_tick

SpecAlert == AlertInit /\ [][AlertNext]_vars

(***************************************************************************)
(* SpecStop: Orchestrator.stop() called while a cycle is in flight.  Each  *)
(* state write is a SET sent when transitionState calls saveState and      *)
(* answered later; the caller assigns this.state when its answer arrives.  *)
(***************************************************************************)
\* the cycles followed
MaxStopCycles == 2

\* this.state and the store when the cycle in flight began
StopStarts ==
    {[state |-> getDefaultState, store |-> Absent]}
    \cup {[state |-> st, store |-> saveStateText(st)] :
             st \in {[getDefaultState EXCEPT !.consecutiveFailures = n,
                                             !.lastError = CycleError] : n \in {1, 4}}}

StopInit ==
    /\ SMIdle
    /\ ProcIdle
    /\ EvalIdle
    /\ OrchIdle
    /\ bk = NoBackoff /\ rt = NoRetry /\ gs = NoShutdown /\ wd = NoWatch /\ al = NoAlerts
    /\ lk = NoRelease
    /\ \E s \in StopStarts :
          sr = [NoStop EXCEPT !.state = s.state, !.store = s.store, !.cyc = "body",
                              !.isRunning = TRUE]

stopOthers == <<lk, al, bk, rt, gs, wd, evalVars, orchVars, smVars, procVars>>

\* a write sent by `who`: the snapshot passed to saveState
Sent(who, value) == Append(sr.queue, [by |-> who, value |-> value])

\* the cycle in flight reaches its accounting call with the this.state of that
\* moment: recordSuccess(this.state) at the end of runCycle, or
\* recordFailure(this.state, ..) in the catch block of the loop
T_cycleEnds ==
    /\ ~sr.finished /\ sr.cyc = "body"
    /\ \E succeeded \in BOOLEAN :
          sr' = IF succeeded /\ recordSuccessIsNoop(sr.state)
                THEN [sr EXCEPT !.cyc = "done"]
                ELSE [sr EXCEPT !.cyc = "writing",
                                !.queue = Sent("cycle",
                                    IF succeeded THEN recordSuccessState(sr.state)
                                    ELSE recordFailureState(sr.state, CycleError))]
    /\ UNCHANGED stopOthers

\* the shutdown handler calls stop(): isRunning is cleared, and when the state can
\* operate transitionState(this.state, SHUTTING_DOWN) sends its write
T_stop ==
    /\ ~sr.finished /\ sr.stp = "off"
    /\ sr' = IF canOperate(sr.state)
             THEN [sr EXCEPT !.isRunning = FALSE, !.operable = TRUE, !.stp = "writing",
                             !.queue = Sent("stop",
                                 updatedState(sr.state, "SHUTTING_DOWN", NoUpdates))]
             ELSE [sr EXCEPT !.isRunning = FALSE, !.stp = "done"]
    /\ UNCHANGED stopOthers

\* the oldest write in flight is stored and answered; its caller assigns the
\* snapshot it sent to this.state
T_reply ==
    /\ ~sr.finished /\ sr.queue # <<>>
    /\ LET w == Head(sr.queue)
       IN  sr' = [sr EXCEPT !.queue = Tail(@),
                            !.store = saveStateText(w.value),
                            !.state = w.value,
                            !.cyc = IF w.by = "cycle" THEN "done" ELSE @,
                            !.stp = IF w.by = "stop" THEN "done" ELSE @]
    /\ UNCHANGED stopOthers

\* the loop of start() goes round while isRunning is set: the next cycle passes
\* the gate, or is skipped there
T_nextCycle ==
    /\ ~sr.finished /\ sr.cyc = "done" /\ sr.isRunning
    /\ sr.cycles < MaxStopCycles
    /\ sr' = [sr EXCEPT !.cycles = @ + 1,
                        !.cyc = IF canOperate(sr.state) THEN "body" ELSE "done"]
    /\ UNCHANGED stopOthers

\* gracefulShutdown after its handlers: release, closeRedis (QUIT is answered
\* after every command sent before it), process.exit(0)
T_exit ==
    /\ ~sr.finished /\ sr.stp = "done" /\ sr.queue = <<>>
    /\ sr' = [sr EXCEPT !.finished = TRUE]
    /\ UNCHANGED stopOthers

StopNext ==
    \/ T_cycleEnds
    \/ T_stop
    \/ T_reply
    \/ T_nextCycle
    \/ T_exit

SpecStop == StopInit /\ [][StopNext]_vars

(***************************************************************************)
(* SpecRelease: one DistributedLock that acquired the lock: the callbacks  *)
(* of its renewal timer and its release(), whose scripts travel on the one *)
(* connection of getRedisClient() and are run and answered in the order    *)
(* they were sent.                                                         *)
(***************************************************************************)
\* the timer callbacks followed, and the renewal scripts in flight at once
MaxRenewTicks == 3
MaxInFlight == 2

\* the place in the queue of the script the server runs next
nextCommand_NewestFirst(queue) == Len(queue)

nextCommand(queue) == 1

ReleaseInit ==
    /\ SMIdle
    /\ ProcIdle
    /\ EvalIdle
    /\ OrchIdle
    /\ bk = NoBackoff /\ rt = NoRetry /\ gs = NoShutdown /\ wd = NoWatch /\ al = NoAlerts
    /\ sr = NoStop
    /\ lk = [NoRelease EXCEPT !.holder = "self", !.isHeld = TRUE, !.timerOn = TRUE]

releaseOthers == <<sr, al, bk, rt, gs, wd, evalVars, orchVars, smVars, procVars>>

\* the setInterval callback up to its await: a cleared flag stops the timer, else
\* the compare-and-expire script is sent
L_tick ==
    /\ ~lk.lost /\ lk.timerOn
    /\ lk.ticks < MaxRenewTicks
    /\ Cardinality({i \in DOMAIN lk.queue : lk.queue[i] = "expire"}) < MaxInFlight
    /\ lk' = IF ~lk.isHeld
             THEN [lk EXCEPT !.ticks = @ + 1, !.timerOn = FALSE]
             ELSE [lk EXCEPT !.ticks = @ + 1, !.queue = Append(@, "expire")]
    /\ UNCHANGED releaseOthers

\* release() up to its await: false at once when the flag is clear; else
\* stopRenewal, and the compare-and-delete script is sent
L_release ==
    /\ ~lk.lost /\ lk.release = "off"
    /\ lk' = IF ~lk.isHeld
             THEN [lk EXCEPT !.release = "false"]
             ELSE [lk EXCEPT !.release = "awaiting", !.timerOn = FALSE,
                             !.raced = (lk.queue # <<>>),
                             !.queue = Append(@, "del")]
    /\ UNCHANGED releaseOthers

\* the server runs the next script and its sender goes on with the answer: a
\* renewal that rejected is logged, one that did not find the token takes the
\* fatal path; release() throws, or sets the flag to `result === 1`
L_serve ==
    /\ ~lk.lost /\ lk.queue # <<>>
    /\ \E rejects \in BOOLEAN :
          LET i == nextCommand(lk.queue)
              rest == [lk EXCEPT !.queue = SubSeq(lk.queue, 1, i - 1)
                                           \o SubSeq(lk.queue, i + 1, Len(lk.queue))]
          IN  lk' = IF lk.queue[i] = "expire"
                    THEN IF rejects \/ lk.holder = "self" THEN rest
                         ELSE [rest EXCEPT !.isHeld = FALSE, !.timerOn = FALSE,
                                           !.lost = TRUE]
                    ELSE IF rejects THEN [rest EXCEPT !.release = "threw"]
                    ELSE IF lk.holder = "self"
                    THEN [rest EXCEPT !.holder = "none", !.isHeld = TRUE,
                                      !.release = "true"]
                    ELSE [rest EXCEPT !.isHeld = FALSE, !.release = "false"]
    /\ UNCHANGED releaseOthers

\* the record's time to live runs out; another instance may take the lock
L_expire ==
    /\ ~lk.lost /\ lk.holder = "self"
    /\ \E h \in {"none", "other"} : lk' = [lk EXCEPT !.holder = h]
    /\ UNCHANGED releaseOthers

ReleaseNext ==
    \/ L_tick
    \/ L_release
    \/ L_serve
    \/ L_expire

SpecRelease == ReleaseInit /\ [][ReleaseNext]_vars

(***************************************************************************)
(* SpecOrch: one Orchestrator over one state store                         *)
(*                                                                         *)
(* A step of the loop of start() is one action: the gate of runCycle, the  *)
(* fetches, the decision, the dispatch, the accounting call and the waits  *)
(* that follow.  Collaborators answer as the environment chooses.          *)
(***************************************************************************)
\* DRY_RUN, AUTO_BOOTSTRAP, and whether initialize() ended with the wallet and the
\* three protocol clients set (otherwise: monitoring-only mode, clients null)
OrchConfigs ==
    {[dryRun |-> TRUE, autoBootstrap |-> FALSE, clients |-> FALSE]}
    \cup [dryRun : {FALSE}, autoBootstrap : BOOLEAN, clients : BOOLEAN]

\* snapshots an earlier run may have left in the store
OrchStoredSnapshots ==
    { [getDefaultState EXCEPT !.outOfRangeSince = 1],
      [getDefaultState EXCEPT !.currentState = "REBALANCING"],
      [getDefaultState EXCEPT !.currentState = "ERROR_RECOVERY", !.consecutiveFailures = 5,
                              !.lastError = "Error 1"],
      [getDefaultState EXCEPT !.currentState = "SHUTTING_DOWN"] }

\* the price getTslaPrice returns when it returns one
TslaPrice == 250

\* getTslaPrice: throws, or returns a price
PriceFetches == {[threw |-> TRUE, tslaPrice |-> 0], [threw |-> FALSE, tslaPrice |-> TslaPrice]}

\* the Leg A fetch: not tried without a client; else it throws, finds no position,
\* or finds positions whose deltas sum to lpDelta, in range or not
LpFetches(cfg) ==
    IF ~cfg.clients
    THEN {[tried |-> FALSE, threw |-> FALSE, count |-> 0, lpDelta |-> 0, inRange |-> TRUE]}
    ELSE {[tried |-> TRUE, threw |-> TRUE, count |-> 0, lpDelta |-> 0, inRange |-> TRUE],
          [tried |-> TRUE, threw |-> FALSE, count |-> 0, lpDelta |-> 0, inRange |-> TRUE]}
         \cup {[tried |-> TRUE, threw |-> FALSE, count |-> 1, lpDelta |-> 1000, inRange |-> r] :
                  r \in BOOLEAN}

\* the Leg B fetch: not tried without a client; else it throws or sums the deltas
\* of the positions found
HedgeFetches(cfg) ==
    IF ~cfg.clients
    THEN {[tried |-> FALSE, threw |-> FALSE, hedgeDelta |-> 0]}
    ELSE {[tried |-> TRUE, threw |-> TRUE, hedgeDelta |-> 0]}
         \cup {[tried |-> TRUE, threw |-> FALSE, hedgeDelta |-> d] : d \in {-950, -1100}}

\* UTC minute of the day and Date.now() of a cycle: in and out of the quiet hours,
\* two and three ticks after the outOfRangeSince of the stored snapshots
CycleUtcMinutes == {870, 916}

CycleTimes == {3, 4}

\* estimatedGasCost of runCycle: 0.001, less than one lamport; costs are whole
\* lamports here, and 0.001 compares with every whole limit as 0 does
EstimatedGasCost == 0

\* config.MIN_REBALANCE_SIZE_USD
MinRebalanceSizeUsd == 60

\* the inputs of runDryRunCycle
MockLpDelta == 1000

MockHedgeDelta == -950

\* what bootstrapPosition ends in: no funds found, the Leg A open failed, the hedge
\* open failed, all opened, or an exception that leaves it
BootOutcomes == {"unfunded", "lpFailed", "hedgeFailed", "done", "throws"}

\* the actions bootstrapPosition had dispatched when it ended that way
BootDispatched(outcome) ==
    CASE outcome = "lpFailed" -> {"openLp"}
      [] outcome = "hedgeFailed" -> {"openLp", "openShort"}
      [] outcome = "done" -> {"swap", "openLp", "openShort"}
      [] OTHER -> {}

\* the body of a cycle: what it did, how it ended ("done": the last line is
\* reached, "return": an early return, "throw": an exception leaves runCycle),
\* and hasBootstrapped afterwards
Body(obs, end, boot) == [obs |-> obs, end |-> end, boot |-> boot]

\* executeRebalance(sizeToAdjust, tslaPrice): the actions it dispatches and what it
\* reports; it catches every exception of a dispatch
ExecuteRebalance(cfg, obs, sizeToAdjust) ==
    IF ~cfg.clients THEN {[obs EXCEPT !.rebalance = "failed"]}
    ELSE IF Abs(sizeToAdjust) < MinRebalanceSizeUsd THEN {[obs EXCEPT !.rebalance = "skipped"]}
    ELSE IF sizeToAdjust > 0
    THEN {[obs EXCEPT !.rebalance = "failed"]}      \* not enough collateral
         \cup {[obs EXCEPT !.rebalance = r, !.dispatched = {"openShort"}] : r \in {"ok", "failed"}}
    ELSE {[obs EXCEPT !.rebalance = r, !.dispatched = {"closePosition"}] : r \in {"ok", "failed"}}

\* evaluateRebalance and the metrics snapshot that follows it, in runCycle and in
\* runDryRunCycle alike; both call into metrics and logging, which may throw
Decide(state, obs, isLpInRange) ==
    {[threw |-> TRUE, obs |-> [obs EXCEPT !.thrower = "decision"]]}
    \cup {[threw |-> FALSE,
           obs |-> [obs EXCEPT !.evalState = state.currentState,
                               !.decision = evaluateRebalance(state, obs.lpDelta,
                                                obs.hedgeDelta, EstimatedGasCost,
                                                isLpInRange, utc, now)]]
          : utc \in CycleUtcMinutes, now \in CycleTimes}

\* how runCycle goes on after executeRebalance reported: the report only picks the
\* status label of a counter, and recordSuccess follows either way
afterDispatch_FailureThrows(rebalance) == IF rebalance = "failed" THEN "throw" ELSE "done"

afterDispatch(rebalance) == "done"

\* runCycle from the decision on: the decision, then the dispatch it asks for
DecideAndDispatch(state, cfg, boot, obs, isLpInRange) ==
    UNION { IF d.threw THEN {Body(d.obs, "throw", boot)}
            ELSE IF d.obs.decision.shouldRebalance /\ ~d.obs.decision.blocked
            THEN {Body(o, afterDispatch(o.rebalance), boot) :
                     o \in ExecuteRebalance(cfg, d.obs, d.obs.decision.sizeToAdjust)}
            ELSE {Body(d.obs, "done", boot)}
          : d \in Decide(state, obs, isLpInRange) }

\* a Leg B fetch whose exception leaves runCycle
FetchHedgeAndDecide_Uncaught(state, cfg, boot, obs, isLpInRange) ==
    UNION { LET tried == [obs EXCEPT !.fetched = @ \cup (IF h.tried THEN {"hedge"} ELSE {})]
            IN  IF h.threw
                THEN {Body([tried EXCEPT !.failed = @ \cup {"hedge"}, !.thrower = "hedge"],
                           "throw", boot)}
                ELSE DecideAndDispatch(state, cfg, boot,
                                       [tried EXCEPT !.hedgeDelta = h.hedgeDelta], isLpInRange)
          : h \in HedgeFetches(cfg) }

\* runCycle from the Leg B fetch on
FetchHedgeAndDecide(state, cfg, boot, obs, isLpInRange) ==
    UNION { DecideAndDispatch(state, cfg, boot,
                [obs EXCEPT !.fetched = @ \cup (IF h.tried THEN {"hedge"} ELSE {}),
                            !.failed = @ \cup (IF h.threw THEN {"hedge"} ELSE {}),
                            !.hedgeDelta = h.hedgeDelta],
                isLpInRange)
          : h \in HedgeFetches(cfg) }

\* runCycle from the Leg A fetch on; with no position, AUTO_BOOTSTRAP and no
\* bootstrap done yet, bootstrapPosition runs inside the try block of the fetch and
\* the cycle returns after it
FetchLpAndDecide(state, cfg, boot, obs) ==
    UNION { LET tried == [obs EXCEPT !.fetched = @ \cup (IF l.tried THEN {"lp"} ELSE {})]
                threw == [tried EXCEPT !.failed = @ \cup {"lp"}]
            IN  IF l.threw THEN FetchHedgeAndDecide(state, cfg, boot, threw, TRUE)
                ELSE IF l.tried /\ l.count = 0 /\ cfg.autoBootstrap /\ ~boot
                THEN UNION { IF b = "throws"
                             THEN FetchHedgeAndDecide(state, cfg, boot, threw, TRUE)
                             ELSE {Body([tried EXCEPT !.mode = "bootstrap",
                                                      !.dispatched = BootDispatched(b)],
                                        "return", b = "done")}
                           : b \in BootOutcomes }
                ELSE FetchHedgeAndDecide(state, cfg, boot,
                                         [tried EXCEPT !.lpDelta = l.lpDelta], l.inRange)
          : l \in LpFetches(cfg) }

\* the live body of runCycle, after the gate
LiveCycle(state, cfg, boot) ==
    UNION { FetchLpAndDecide(state, cfg, boot,
                [NoCycle EXCEPT !.gate = "passed", !.mode = "live",
                                !.fetched = {"price"},
                                !.failed = IF p.threw THEN {"price"} ELSE {},
                                !.tslaPrice = p.tslaPrice])
          : p \in PriceFetches }

\* runDryRunCycle, after which runCycle returns: a decision on fixed inputs that
\* is logged and never dispatched
DryRunCycle(state, boot) ==
    LET obs == [NoCycle EXCEPT !.gate = "passed", !.mode = "dry_run",
                               !.lpDelta = MockLpDelta, !.hedgeDelta = MockHedgeDelta]
    IN  {Body(d.obs, IF d.threw THEN "throw" ELSE "return", boot) :
            d \in Decide(state, obs, TRUE)}

\* the body of runCycle for a state that passes the gate
CycleBodies(state, cfg, boot) ==
    IF cfg.dryRun THEN DryRunCycle(state, boot) ELSE LiveCycle(state, cfg, boot)

\* the message of the exception that left the cycle
CycleErrorText == "Error 1"

OrchInit ==
    /\ SMIdle
    /\ ProcIdle
    /\ EvalIdle
    /\ UtilIdle
    /\ oCfg \in OrchConfigs
    /\ oStore \in {Absent} \cup {saveStateText(st) : st \in OrchStoredSnapshots}
    /\ oState = NoSnap
    /\ oPc = "created"
    /\ oBoot = FALSE
    /\ oStreak = -1
    /\ oLast = NoCycle
    /\ oBackoff = BackoffInitialMs

orchOthers == <<evalVars, utilVars, smVars, procVars>>

\* await orchestrator.initialize(), then start() up to its loop; a loadState that
\* rejects leaves main(), whose catch handler exits the process
O_initialize ==
    /\ oPc = "created"
    /\ \E readFails \in BOOLEAN :
          IF loadStateThrows(readFails)
          THEN /\ oPc' = "exited"
               /\ UNCHANGED <<oState, oStreak>>
          ELSE /\ oState' = loadStateValue(oStore)
               /\ oStreak' = RunBase(oState')
               /\ oPc' = "loop"
    /\ UNCHANGED <<oCfg, oStore, oBoot, oLast, oBackoff, orchOthers>>

\* the waits that end an iteration: the backoff after an exception, then the rest
\* of LOOP_INTERVAL_MS when the iteration, backoff included, took less than that
LoopWaits(escaped, slow) ==
    (IF escaped THEN <<"backoff">> ELSE <<>>) \o (IF slow THEN <<>> ELSE <<"interval">>)

\* the running delay of the loop's Backoff after an iteration: wait() in the catch
\* block grows it, reset() after a runCycle that returned restores the initial one
backoffAfter_KeptOnReturn(escaped, currentDelay) ==
    IF escaped THEN nextCurrentDelay(currentDelay, BackoffMultiplier, BackoffMaxMs)
               ELSE currentDelay

backoffAfter(escaped, currentDelay) ==
    IF escaped THEN nextCurrentDelay(currentDelay, BackoffMultiplier, BackoffMaxMs)
               ELSE BackoffInitialMs

\* what an iteration that reached its waits has done: the waits, the running delay
\* the backoff wait drew from, and the place of the cycle in its run of failed ones
Ended(obs, escaped, slow) ==
    [obs EXCEPT !.waits = LoopWaits(escaped, slow),
                !.backoff = IF escaped THEN oBackoff ELSE 0,
                !.failedRun = IF escaped THEN oLast.failedRun + 1 ELSE 0]

\* an iteration whose runCycle returns at its gate
O_cycleSkipped ==
    /\ oPc = "loop"
    /\ ~canOperate(oState)
    /\ \E slow \in BOOLEAN :
          oLast' = Ended([NoCycle EXCEPT !.gate = "skipped"], FALSE, slow)
    /\ oBackoff' = backoffAfter(FALSE, oBackoff)
    /\ UNCHANGED <<oCfg, oStore, oState, oPc, oBoot, oStreak, orchOthers>>

\* the catch block of the loop: recordFailure, then the waits; a recordFailure that
\* rejects leaves start() and main(), whose catch handler exits the process
LoopCatch(obs, slow) ==
    \E writeFails \in BOOLEAN :
       IF writeFails
       THEN /\ oLast' = [obs EXCEPT !.escaped = TRUE,
                                    !.accounting = @ \o <<"recordFailure">>,
                                    !.failedRun = oLast.failedRun + 1]
            /\ oPc' = "exited"
            /\ UNCHANGED <<oState, oStore, oStreak, oBackoff>>
       ELSE /\ oLast' = Ended([obs EXCEPT !.escaped = TRUE,
                                          !.accounting = @ \o <<"recordFailure">>],
                              TRUE, slow)
            /\ oBackoff' = backoffAfter(TRUE, oBackoff)
            /\ oState' = recordFailureState(oState, CycleErrorText)
            /\ oStore' = saveStateText(oState')
            /\ oStreak' = IF oStreak >= 0 THEN oStreak + 1 ELSE -1
            /\ oPc' = "loop"

\* an iteration whose runCycle passes the gate
O_cycle ==
    /\ oPc = "loop"
    /\ canOperate(oState)
    /\ \E b \in CycleBodies(oState, oCfg, oBoot), slow \in BOOLEAN :
          /\ oBoot' = b.boot
          /\ CASE b.end = "throw" -> LoopCatch(b.obs, slow)
               [] b.end = "return" ->
                    /\ oLast' = Ended(b.obs, FALSE, slow)
                    /\ oBackoff' = backoffAfter(FALSE, oBackoff)
                    /\ oStreak' = RunBase(oState)
                    /\ UNCHANGED <<oState, oStore, oPc>>
               [] b.end = "done" ->
                    LET counted == [b.obs EXCEPT !.accounting = <<"recordSuccess">>]
                        failed == [counted EXCEPT !.thrower = "recordSuccess"]
                    IN  IF recordSuccessIsNoop(oState)
                        THEN /\ oLast' = Ended(counted, FALSE, slow)
                             /\ oBackoff' = backoffAfter(FALSE, oBackoff)
                             /\ oStreak' = RunBase(oState)
                             /\ UNCHANGED <<oState, oStore, oPc>>
                        ELSE \/ /\ oLast' = Ended(counted, FALSE, slow)
                                /\ oBackoff' = backoffAfter(FALSE, oBackoff)
                                /\ oState' = recordSuccessState(oState)
                                /\ oStore' = saveStateText(oState')
                                /\ oStreak' = RunBase(oState')
                                /\ UNCHANGED oPc
                             \/ LoopCatch(failed, slow)
    /\ UNCHANGED <<oCfg, orchOthers>>

\* stop(), called by the shutdown handler: the loop ends, and the state moves to
\* SHUTTING_DOWN when it can still operate
O_stop ==
    /\ oPc = "loop"
    /\ oPc' = "stopped"
    /\ IF canOperate(oState)
       THEN \E writeFails \in BOOLEAN :
               IF writeFails THEN UNCHANGED <<oState, oStore>>
               ELSE /\ oState' = updatedState(oState, "SHUTTING_DOWN", NoUpdates)
                    /\ oStore' = saveStateText(oState')
       ELSE UNCHANGED <<oState, oStore>>
    /\ UNCHANGED <<oCfg, oBoot, oStreak, oLast, oBackoff, orchOthers>>

OrchNext ==
    \/ O_initialize
    \/ O_cycleSkipped
    \/ O_cycle
    \/ O_stop

SpecOrch == OrchInit /\ [][OrchNext]_vars

(***************************************************************************)
(* Claims about the lock and the process life cycle                        *)
(***************************************************************************)
\* an active controller: its acquire() returned true and it has not called
\* release, detected the loss of the lock, or terminated
Active(p) ==
    Alive(p) /\ hist[p].acquire = "OK" /\ hist[p].release = "none" /\ ~hist[p].lost

\* C1: at every moment at most one instance is an active controller, whatever
\* expiries, failing renewals and crashes have happened
C1_AtMostOneActiveController == Cardinality({p \in Procs : Active(p)}) <= 1

\* C2: an acquire() returns true only when its SET stored its own token, and
\* never while the lock record of another live instance exists
C2_AcquireTrueOnlyAlone ==
    [][\A p \in Procs :
          (hist[p].acquire = "none" /\ hist'[p].acquire = "OK") =>
              /\ lockVal'[StoreOf(p)] = Token(p)
              /\ \A q \in Procs \ {p} : ~(Alive(q) /\ lockVal[StoreOf(q)] = Token(q))]_vars

\* C3: a release() that returns does so with true only when the record held the
\* caller's token, and the record is then deleted; when the record held another
\* value or was absent it returns false and the record is as before
C3_ReleaseComparesAndDeletes ==
    [][\A p \in Procs :
          (hist[p].release = "none" /\ hist'[p].release \in {"true", "false"}) =>
              LET s == StoreOf(p)
              IN  /\ hist'[p].release = "true" =>
                         (lockVal[s] = Token(p) /\ lockVal'[s] = NoToken)
                  /\ lockVal[s] # Token(p) =>
                         /\ hist'[p].release = "false"
                         /\ lockVal'[s] = lockVal[s] /\ lockTtl'[s] = lockTtl[s]]_vars

\* C4: a lock record whose time to live has run its full length with no renewal
\* is gone, and an acquire() whose SET then reaches the store returns true and
\* stores the caller's token
C4_ExpiredLockIsAcquirable ==
    /\ [](\A s \in Stores : lockAge[s] >= LockTtlTicks => lockVal[s] = NoToken)
    /\ [][\A p \in Procs :
            ( /\ hist[p].acquire = "none" /\ hist'[p].acquire \in {"OK", "nil"}
              /\ lockAge[StoreOf(p)] >= LockTtlTicks ) =>
                (hist'[p].acquire = "OK" /\ lockVal'[StoreOf(p)] = Token(p))]_vars

\* a holder was killed without releasing, and another instance has acquired the
\* record after it
C4_Witness ==
    \E p, q \in Procs :
        /\ p # q /\ ~useMock
        /\ pc[q] = "crashed" /\ hist[q].acquire = "OK" /\ hist[q].release = "none"
        /\ ~hist[q].lost
        /\ Alive(p) /\ hist[p].acquire = "OK" /\ lockVal[SharedStore] = Token(p)

\* C5: an instance whose renewal found the record not to hold its token has
\* marked the lock not held, stopped its timer and exited, and has read or
\* written no state and run no cycle since
C5_LockLossIsFatal ==
    \A p \in Procs :
        hist[p].lost =>
            pc[p] = "exited" /\ ~isHeld[p] /\ ~timerOn[p] /\ ~hist[p].actedAfterLoss

\* an instance that ran cycles has detected the loss of its lock
C5_Witness == \E p \in Procs : hist[p].lost /\ hist[p].touched

\* C6: every write of the state snapshot by an instance happens while the lock
\* record stores that instance's token
C6_WritesOnlyUnderLock == \A p \in Procs : ~hist[p].wroteUnlocked

\* C7: an instance reads or writes state and runs cycles only after its
\* acquire() returned true; when acquire() returned false it has exited without
\* any of these
C7_AcquireBeforeState ==
    \A p \in Procs :
        /\ hist[p].touched => hist[p].acquire = "OK"
        /\ pc[p] \in {"initialize", "running"} => hist[p].acquire = "OK"
        /\ hist[p].acquire = "nil" => (pc[p] = "exited" /\ ~hist[p].touched)

\* one instance was refused the lock and has exited while the holder runs cycles
C7_Witness ==
    \E p, q \in Procs :
        /\ hist[p].acquire = "nil" /\ pc[p] = "exited"
        /\ hist[q].acquire = "OK" /\ cyc[q] = "inflight"

(***************************************************************************)
(* Claims about state_machine.ts, checked under SpecSM                     *)
(***************************************************************************)
\* the default snapshot as the claims spell it out
DefaultSnapshot ==
    [currentState |-> "IDLE", consecutiveFailures |-> 0, lpPositionMint |-> Null,
     hedgePositionId |-> Null, outOfRangeSince |-> NoTime, lastError |-> Null,
     lastLpDelta |-> 0, lastHedgeDelta |-> 0, lastRebalanceTime |-> 0]

C9_TransitionReturnsAndPersistsMerge ==
    [][(smLast'.op = "transitionState" /\ ~smLast'.threw) =>
        /\ DOMAIN smCur' = Keys
        /\ \A k \in Keys :
              smCur'[k] = IF k = "currentState" THEN smLast'.newState
                          ELSE IF k \in DOMAIN smLast'.updates THEN smLast'.updates[k]
                          ELSE smCur[k]
        /\ smStore'.kind = "json"
        /\ JsonParse(smStore'.body) = smCur']_vars

\* a transition whose updates named another currentState than NEW, and NEW won
C9_Witness ==
    /\ smLast.op = "transitionState" /\ ~smLast.threw
    /\ "currentState" \in DOMAIN smLast.updates
    /\ smLast.updates.currentState # smLast.newState
    /\ smCur.currentState = smLast.newState
    /\ smCur.lastRebalanceTime = 1
    /\ smStore.kind = "json" /\ JsonParse(smStore.body) = smCur

\* C10: recordFailure(state, e) adds exactly 1 to consecutiveFailures and sets
\* lastError = e; it keeps currentState while the new count is below 5 and sets
\* ERROR_RECOVERY when the new count reaches 5; so five recordFailure calls in a
\* row from IDLE with count 0 end in ERROR_RECOVERY with consecutiveFailures = 5.
C10_RecordFailureEscalatesAtFive ==
    /\ [][(smLast'.op = "recordFailure" /\ ~smLast'.threw) =>
            /\ smCur'.consecutiveFailures = smCur.consecutiveFailures + 1
            /\ smCur'.lastError = smLast'.error
            /\ smCur'.consecutiveFailures < 5 => smCur'.currentState = smCur.currentState
            /\ smCur'.consecutiveFailures = 5 => smCur'.currentState = "ERROR_RECOVERY"]_vars
    /\ [](/\ (smRun >= 0 /\ smRun < 5) =>
                (smCur.currentState = "IDLE" /\ smCur.consecutiveFailures = smRun)
          /\ smRun = 5 =>
                (smCur.currentState = "ERROR_RECOVERY" /\ smCur.consecutiveFailures = 5))

\* the fifth recordFailure in a row from IDLE/0 has returned
C10_Witness ==
    /\ smRun = 5
    /\ smLast.op = "recordFailure" /\ ~smLast.threw
    /\ smCur.currentState = "ERROR_RECOVERY"

\* C11: recordSuccess returns a snapshot with consecutiveFailures = 0 and
\* lastError = null and every other field, currentState included, as it was; on
\* a snapshot that is already clean it returns its input and writes nothing.
C11_RecordSuccessClearsOnlyFailures ==
    [][(smLast'.op = "recordSuccess" /\ ~smLast'.threw) =>
        /\ DOMAIN smCur' = Keys
        /\ smCur'.consecutiveFailures = 0
        /\ smCur'.lastError = Null
        /\ \A k \in Keys \ {"consecutiveFailures", "lastError"} : smCur'[k] = smCur[k]
        /\ (smCur.consecutiveFailures = 0 /\ smCur.lastError = Null) =>
              /\ smCur' = smCur
              /\ smStore' = smStore
              /\ smSaved' = smSaved]_vars

\* a recordSuccess that cleared five failures and left ERROR_RECOVERY in place
C11_Witness ==
    /\ smLast.op = "recordSuccess" /\ ~smLast.threw
    /\ smCur.currentState = "ERROR_RECOVERY"
    /\ smCur.consecutiveFailures = 0 /\ smCur.lastError = Null
    /\ smStore.kind = "json" /\ JsonParse(smStore.body) = smCur

(***************************************************************************)
(* Claims about evaluateRebalance, checked under SpecEval                  *)
(***************************************************************************)
\* the call of SpecEval has returned
Evaluated == evOut # NoDecision

\* the blocking conditions of the call, read off its arguments and clock
EvNotIdle == evIn.state.currentState # "IDLE"

EvQuiet == evIn.currentUTC \in (14 * 60 + 30)..(15 * 60 + 15)

EvGasTooHigh == evIn.estimatedGasCost > 50000000

EvBlocked == EvNotIdle \/ EvQuiet \/ EvGasTooHigh

\* Leg A is out of range and has been for longer than the maximum duration
EvOutOfRangeTooLong ==
    /\ ~evIn.isLpInRange
    /\ evIn.state.outOfRangeSince # NoTime
    /\ evIn.now - evIn.state.outOfRangeSince > MaxOutOfRangeTicks

\* C14: evaluateRebalance tests the blocking conditions first, in the order not
\* idle, quiet hours, gas too high; the decision's reason is that of the first one
\* that holds, and a blocked decision has blocked = true, shouldRebalance = false
\* and sizeToAdjust = 0 whatever the deltas and the range status are.
C14_BlockingChecksFirstInOrder ==
    Evaluated =>
        /\ EvNotIdle => evOut.reason = "not_idle"
        /\ (~EvNotIdle /\ EvQuiet) => evOut.reason = "quiet_hours"
        /\ (~EvNotIdle /\ ~EvQuiet /\ EvGasTooHigh) => evOut.reason = "gas_too_high"
        /\ EvBlocked => (evOut.blocked /\ ~evOut.shouldRebalance /\ evOut.sizeToAdjust = 0)
        /\ ~EvBlocked =>
              /\ ~evOut.blocked
              /\ evOut.reason \notin {"not_idle", "quiet_hours", "gas_too_high"}

\* an IDLE call in quiet hours with too high a gas cost, a 5% drift and Leg A out
\* of range for too long: blocked by quiet hours
C14_Witness ==
    /\ Evaluated
    /\ ~EvNotIdle /\ EvQuiet /\ EvGasTooHigh /\ EvOutOfRangeTooLong
    /\ evIn.lpDelta = 1000 /\ evIn.hedgeDelta = -950
    /\ evOut.reason = "quiet_hours" /\ evOut.blocked /\ evOut.sizeToAdjust = 0

\* C15: when nothing blocks, Leg A is out of range and outOfRangeSince is set and
\* older than the maximum out-of-range duration, the decision has shouldRebalance =
\* true, reason out_of_range_too_long and sizeToAdjust = -hedgeDelta, whatever the
\* drift is.
C15_OutOfRangeTooLongTriggers ==
    (Evaluated /\ ~EvBlocked /\ EvOutOfRangeTooLong) =>
        /\ evOut.shouldRebalance /\ ~evOut.blocked
        /\ evOut.reason = "out_of_range_too_long"
        /\ evOut.sizeToAdjust = 0 - evIn.hedgeDelta

\* out of range for too long while the deltas drift by 5%: the out-of-range trigger
\* wins and sizes the adjustment by the hedge alone
C15_Witness ==
    /\ Evaluated /\ ~EvBlocked /\ EvOutOfRangeTooLong
    /\ evIn.lpDelta = 1000 /\ evIn.hedgeDelta = -950
    /\ evOut.reason = "out_of_range_too_long" /\ evOut.sizeToAdjust = 950

\* C16: when nothing blocks and the out-of-range trigger does not apply, the
\* decision is delta_drift with shouldRebalance = true and sizeToAdjust = lpDelta +
\* hedgeDelta exactly when |lpDelta + hedgeDelta| / max(|lpDelta|, 1) >= the drift
\* threshold (equality triggers), and within_threshold with shouldRebalance = false
\* and sizeToAdjust = 0 otherwise.
C16_DriftTriggersAtThreshold ==
    (Evaluated /\ ~EvBlocked /\ ~EvOutOfRangeTooLong) =>
        LET net == evIn.lpDelta + evIn.hedgeDelta
            absNet == IF net < 0 THEN 0 - net ELSE net
            absLp == IF evIn.lpDelta < 0 THEN 0 - evIn.lpDelta ELSE evIn.lpDelta
            divisor == IF absLp > 1 THEN absLp ELSE 1
        IN  IF 20 * absNet >= divisor
            THEN /\ evOut.reason = "delta_drift"
                 /\ evOut.shouldRebalance /\ ~evOut.blocked
                 /\ evOut.sizeToAdjust = net
            ELSE /\ evOut.reason = "within_threshold"
                 /\ ~evOut.shouldRebalance /\ ~evOut.blocked
                 /\ evOut.sizeToAdjust = 0

\* 1000 against -950 is a drift of exactly 5%: it triggers, with an adjustment of 50
C16_Witness ==
    /\ Evaluated /\ ~EvBlocked /\ ~EvOutOfRangeTooLong
    /\ evIn.lpDelta = 1000 /\ evIn.hedgeDelta = -950
    /\ evOut.reason = "delta_drift" /\ evOut.shouldRebalance /\ evOut.sizeToAdjust = 50

(***************************************************************************)
(* Claims about the cycle loop, checked under SpecOrch                     *)
(***************************************************************************)
\* C12: canOperate is false exactly for ERROR_RECOVERY and SHUTTING_DOWN, and a
\* cycle that starts while it is false fetches from no collaborator, evaluates no
\* decision, dispatches nothing and writes no state.
C12_NoWorkWhenCannotOperate ==
    /\ \A c \in BotStates :
          canOperate([getDefaultState EXCEPT !.currentState = c])
             <=> c \notin {"ERROR_RECOVERY", "SHUTTING_DOWN"}
    /\ [][(oPc = "loop" /\ oPc' # "stopped"
             /\ oState.currentState \in {"ERROR_RECOVERY", "SHUTTING_DOWN"}) =>
            /\ oLast'.gate = "skipped"
            /\ oLast'.fetched = {} /\ oLast'.decision = NoDecision
            /\ oLast'.dispatched = {} /\ oLast'.accounting = <<>>
            /\ oStore' = oStore /\ oState' = oState /\ oPc' = "loop"]_vars

\* a cycle skipped at the gate by an orchestrator that loaded SHUTTING_DOWN
C12_Witness ==
    /\ oPc = "loop" /\ oLast.gate = "skipped"
    /\ oState.currentState = "SHUTTING_DOWN"

\* the snapshot the store of the orchestrator holds
PersistedSnapshot == IF oStore.kind = "json" THEN JsonParse(oStore.body) ELSE NoSnap

Sources == {"price", "lp", "hedge"}

\* C17: a cycle dispatches an open, increase or close action only if the decision
\* of that cycle has shouldRebalance = true and blocked = false, hence only when the
\* state passed to evaluateRebalance was IDLE; a dry-run cycle dispatches nothing.
C17_DispatchOnlyOnUnblockedDecision ==
    /\ oLast.dispatched # {} =>
          /\ oLast.decision # NoDecision
          /\ oLast.decision.shouldRebalance /\ ~oLast.decision.blocked
          /\ oLast.evalState = "IDLE"
    /\ oLast.mode = "dry_run" => oLast.dispatched = {}

\* C18: every cycle that passes the gate ends with one accounting call:
\* recordSuccess when no exception escaped its body (live, dry-run and bootstrap
\* cycles alike), recordFailure when one did.
C18_OneAccountingCallPerCycle ==
    oLast.gate = "passed" =>
        /\ ~oLast.escaped => oLast.accounting = <<"recordSuccess">>
        /\ oLast.escaped =>
              /\ oLast.accounting # <<>>
              /\ oLast.accounting[Len(oLast.accounting)] = "recordFailure"
              /\ oLast.thrower # "recordSuccess" => Len(oLast.accounting) = 1

C20_CycleErrorsNeverEndTheLoop ==
    oLast.escaped =>
        /\ oPc \in {"loop", "stopped"}
        /\ oLast.waits # <<>> /\ oLast.waits[1] = "backoff"

\* C21: after a cycle that an exception escaped from, the loop waits the backoff
\* delay only, without the fixed-interval sleep, before the next cycle.
C21_BackoffReplacesIntervalSleep ==
    (oLast.escaped /\ oPc = "loop") => oLast.waits = <<"backoff">>

(***************************************************************************)
(* Claims about the Backoff class, checked under SpecBackoff               *)
(***************************************************************************)
RECURSIVE Pow(_, _)
Pow(b, n) == IF n = 0 THEN 1 ELSE b * Pow(b, n - 1)

RetrySettled == rt.pc \in {"returned", "threw"}

\* what holds of a call of withRetry at each of its steps
RetryContract ==
    /\ rt.fnCalls <= rt.maxAttempts
    /\ rt.pc = "call" => rt.fnCalls = rt.attempt - 1 /\ rt.onRetryCalls = rt.attempt - 1
    /\ rt.pc = "sleep" =>
          /\ rt.fnCalls = rt.attempt /\ rt.onRetryCalls = rt.attempt
          /\ rt.onRetryArgs = <<rt.attempt, rt.lastError, rt.delay>>
          /\ rt.lastError.call = rt.fnCalls
    /\ rt.pc = "returned" => rt.result = rt.fnCalls /\ rt.lastError.call \in {0, rt.fnCalls - 1}
    /\ rt.pc = "threw" =>
          /\ rt.thrown = rt.lastError /\ rt.thrown.call = rt.fnCalls
          /\ rt.fnCalls = rt.maxAttempts \/ ~shouldRetry(rt.hasPredicate, rt.thrown)
    /\ (rt.lastError # NoError /\ ~shouldRetry(rt.hasPredicate, rt.lastError)) =>
          rt.pc = "threw" /\ rt.thrown = rt.lastError
    /\ RetrySettled => rt.onRetryCalls = rt.fnCalls - 1

\* C30: withRetry calls fn at most maxAttempts times and settles; it returns the
\* result of the first call that succeeds, rethrows at once the first error
\* shouldRetry refuses, rethrows the last error after maxAttempts failed calls, and
\* calls onRetry once before each retry with the attempt number, the error and the
\* delay it then sleeps, so onRetry calls are fn calls minus one.
C30_WithRetryContract == []RetryContract /\ <>RetrySettled

\* the default five attempts all failed
C30_Witness ==
    /\ rt.pc = "threw"
    /\ rt.maxAttempts = 5
    /\ rt.fnCalls = 5
    /\ rt.onRetryCalls = 4
    /\ rt.thrown.call = 5

(***************************************************************************)
(* Claims about shutdown, checked under Spec                               *)
(***************************************************************************)
\* C24: graceful shutdown keeps its order: once the shutdown flag is set no new
\* cycle starts; the SHUTTING_DOWN transition is made only from a state that can
\* operate and is persisted by the handlers, before release() is called; release()
\* is called after the handlers and before the store is closed; and after the close
\* nothing follows but the exit.
C24_ShutdownStepsInOrder ==
    [][\A p \in Procs :
          /\ (sd[p] # "none" /\ cyc'[p] = "inflight") => cyc[p] = "inflight"
          /\ (/\ botState'[p] # NoSnap /\ botState'[p].currentState = "SHUTTING_DOWN"
              /\ botState[p] # NoSnap /\ botState[p].currentState # "SHUTTING_DOWN") =>
                /\ canOperate(botState[p])
                /\ sd[p] = "none" /\ sd'[p] = "release"
                /\ hist[p].release = "none"
                /\ stateRec'[StoreOf(p)] = saveStateText(botState'[p])
          /\ hist'[p].release # hist[p].release => sd[p] = "release" /\ sd'[p] = "close"
          /\ (sd[p] = "close" /\ sd'[p] # "close") => ~Alive(p)']_vars

\* the transition was persisted, the lock released, and the close is next
C24_Witness ==
    \E p \in Procs :
        /\ sd[p] = "close"
        /\ botState[p] # NoSnap /\ botState[p].currentState = "SHUTTING_DOWN"
        /\ stateRec[StoreOf(p)] = saveStateText(botState[p])
        /\ hist[p].release = "true"

\* C25: a cycle in flight when the shutdown signal arrives finishes before the lock
\* is released, the store closed and the process ended by the shutdown sequence.
C25_ShutdownWaitsForTheCycle ==
    [][\A p \in Procs :
          (\/ sd[p] = "release" /\ sd'[p] = "close"
           \/ sd[p] = "close" /\ pc'[p] = "exited") => cyc[p] # "inflight"]_vars

\* C27: a process that got past the acquisition of the lock ends, unless killed or
\* ended by the loss of its lock, through the graceful-shutdown sequence, after
\* the release of the lock was attempted.
C27_ExitsGoThroughGracefulShutdown ==
    [][\A p \in Procs :
          (/\ pc[p] \in {"initialize", "running"} /\ pc'[p] = "exited"
           /\ ~hist'[p].lost) =>
              sd[p] = "close"]_vars

(***************************************************************************)
(* Claims about start(), stop() and gracefulShutdown, checked under        *)
(* SpecShutdown                                                            *)
(***************************************************************************)
\* the calls of start() that are in their loop
LiveLoops == { i \in DOMAIN gs.loops : gs.loops[i] # "returned" }

\* C23: whatever the sequence of start() and stop() calls, at most one loop runs:
\* no cycle begins while another loop is in its cycle or in the waits after it.
C23_OneLoopAtATime == Cardinality(LiveLoops) <= 1

\* C26: once gracefulShutdown has set its flag the process terminates, by the hard
\* timeout when a handler, the release or the close never settles.
C26_ShutdownTerminates ==
    (gs.isShuttingDown ~> gs.step = "exited")
    /\ []((gs.step = "exited" /\ gs.hangs) => (gs.hardTimeout = "fired" /\ gs.exitCode = 1))

\* the hard timeout ended a shutdown that hung
C26_Witness ==
    gs.step = "exited" /\ gs.hangs /\ gs.hardTimeout = "fired" /\ gs.exitCode = 1

(***************************************************************************)
(* Claims about the heartbeat, checked under SpecWatch                     *)
(***************************************************************************)
\* C31: once the orchestrator has run a cycle the heartbeat key holds a time
\* stamp, and while it keeps cycling the Watchdog finds no missing or stale
\* heartbeat.
C31_CyclingKeepsTheHeartbeatFresh ==
    wd.cycles >= 1 => (wd.heartbeat # NoHeartbeat /\ wd.lastCheck # "unresponsive")

(***************************************************************************)
(* Claims about the alerter, checked under SpecAlert                       *)
(***************************************************************************)
\* C32: two notifications of one alert type never go out less than
\* ALERT_RATE_LIMIT_MS apart, whatever the interleaving of the sendAlert calls.
C32_NotificationsAreRateLimited ==
    \A i, j \in DOMAIN al.sent : i < j => al.sent[j] - al.sent[i] >= AlertRateLimitTicks

(***************************************************************************)
(* Further claims about the lock, checked under Spec                       *)
(***************************************************************************)
\* C34: once release() has returned, true or false, the instance's held flag
\* is false and its renewal timer is stopped.
C34_ReleasedMeansNotHeld ==
    \A p \in Procs :
        (Alive(p) /\ hist[p].release \in {"true", "false"}) =>
            (~isHeld[p] /\ ~timerOn[p])

\* C38: a renewal whose eval throws is not a lock loss: an instance that
\* acquired the lock and has neither released it nor read a result other than 1
\* keeps its held flag and its renewal timer, however long the errors last.
C38_RenewalErrorIsNotLockLoss ==
    \A p \in Procs : Active(p) => (isHeld[p] /\ timerOn[p])

\* renewals failed until the record expired, and the instance is still in a cycle
C38_Witness ==
    \E p \in Procs :
        /\ Active(p) /\ isHeld[p] /\ timerOn[p]
        /\ lockVal[StoreOf(p)] # Token(p)
        /\ pc[p] = "running" /\ cyc[p] = "inflight"

(***************************************************************************)
(* Further claims about the cycle, checked under SpecOrch                  *)
(***************************************************************************)
\* C40: a live cycle whose Leg A position fetch threw dispatches no open,
\* increase or close of the hedge, whatever the Leg B exposure is.
C40_NoDispatchWithoutLegA ==
    (oLast.mode = "live" /\ "lp" \in oLast.failed) => oLast.dispatched = {}

\* the orchestrator holds a snapshot whose currentState is SHUTTING_DOWN
HoldsShuttingDown == oState # NoSnap /\ oState.currentState = "SHUTTING_DOWN"

\* C39: an instance that finds a SHUTTING_DOWN snapshot in the store loads it,
\* and an instance that holds one skips every cycle at the gate, dispatches
\* nothing and never writes the state, in memory or in the store.
C39_ShuttingDownIsAbsorbing ==
    [][ /\ ( /\ oPc = "created" /\ oPc' = "loop"
             /\ loadStateValue(oStore).currentState = "SHUTTING_DOWN" )
           => oState'.currentState = "SHUTTING_DOWN"
        /\ HoldsShuttingDown =>
             /\ oState' = oState /\ oStore' = oStore
             /\ oLast' # oLast => (oLast'.gate = "skipped" /\ oLast'.dispatched = {})
      ]_vars

\* an instance that loaded SHUTTING_DOWN from the store has skipped a cycle
C39_Witness ==
    /\ oPc = "loop" /\ HoldsShuttingDown /\ oStore = saveStateText(oState)
    /\ oLast.gate = "skipped"

\* what the orchestrator holds and has persisted is a snapshot that getDefaultState,
\* recordFailure, recordSuccess and stop() can make of the default one, and the
\* cycle just run evaluated no decision on a state that is not IDLE or on an
\* outOfRangeSince
OnlyOwnSnapshots ==
    LET ok(st) == /\ st.currentState \in {"IDLE", "ERROR_RECOVERY", "SHUTTING_DOWN"}
                  /\ st.outOfRangeSince = NoTime
                  /\ st.consecutiveFailures <= 5
    IN  /\ oStore # Absent => ok(loadStateValue(oStore))
        /\ oState # NoSnap => ok(oState)
        /\ oLast.decision.reason \notin {"out_of_range_too_long", "not_idle"}

C37_FailedDispatchIsNotACycleFailure ==
    oLast.rebalance = "failed" =>
        /\ oLast.accounting # <<>> /\ Head(oLast.accounting) = "recordSuccess"
        /\ oLast.thrower \in {"none", "recordSuccess"}
        /\ oLast.thrower = "none" =>
              /\ oLast.accounting = <<"recordSuccess">>
              /\ ~oLast.escaped /\ oLast.failedRun = 0
              /\ oLast.backoff = 0 /\ oLast.waits \in {<<>>, <<"interval">>}
              /\ oState.consecutiveFailures = 0
              /\ oState.currentState # "ERROR_RECOVERY"

\* a close of the hedge was dispatched and failed, and the cycle was counted as a
\* success: no failure is on record and the loop goes on
C37_Witness ==
    /\ oLast.rebalance = "failed" /\ oLast.dispatched = {"closePosition"}
    /\ oLast.accounting = <<"recordSuccess">> /\ ~oLast.escaped
    /\ oStreak = 0 /\ oState.consecutiveFailures = 0 /\ oState.lastError = Null
    /\ oStore = saveStateText(oState) /\ oPc = "loop"

(***************************************************************************)
(* Claims about stop() and release() racing with work in flight            *)
(***************************************************************************)
\* C35: when graceful shutdown has finished and the state could operate when
\* stop() was called, the persisted snapshot has currentState SHUTTING_DOWN and
\* this.state equals it, however stop() interleaved with the cycle in flight.
C35_ShutdownPersistsShuttingDown ==
    (sr.finished /\ sr.operable) =>
        /\ sr.state.currentState = "SHUTTING_DOWN"
        /\ sr.store = saveStateText(sr.state)

\* C33: a renewal in flight when release() is called is answered before the
\* release: the renewal takes the fatal path only while release() has not been
\* answered, so never on account of the instance's own delete, and once
\* release() has returned or thrown nothing writes the held flag again.
C33_RenewalAndReleaseDoNotRace ==
    [][ /\ (lk'.lost /\ ~lk.lost) => lk.release \in {"off", "awaiting"}
        /\ lk.release \in {"true", "false", "threw"} => lk'.isHeld = lk.isHeld
      ]_vars

\* release() was called with a renewal in flight and returned true
C33_Witness ==
    lk.raced /\ lk.release = "true" /\ ~lk.lost /\ lk.queue = <<>> /\ lk.holder = "none"

====
